---- MODULE Spec2Model ----
(***************************************************************************)
(* A model of MigrationEngine (article-migration-tool).  Text is a         *)
(* sequence of one-character strings; positions are 1-based and an "end"   *)
(* is the position just past the last character (JavaScript's index + 1).  *)
(* Regular expressions are kept as the syntax trees of the source's        *)
(* literals and run by a backtracking matcher with JavaScript's priority   *)
(* order (leftmost start, alternatives left to right, greedy and lazy      *)
(* quantifiers).                                                           *)
(***************************************************************************)
EXTENDS Integers, Sequences, FiniteSets, TLC

VARIABLES
    pc,            \* which call is in progress and where it stands
    sourceHtml,    \* migrate: the sourceHtml argument
    sourceParts,   \* migrate: the sourceParts argument
    targetParts,   \* migrate: the targetParts argument
    sorted,        \* migrate: sortedSourceParts
    idx,           \* migrate: how many parts of sortedSourceParts are done
    currentHtml,   \* migrate: currentHtml (the working text)
    missing,       \* migrate: missingMappings
    result,        \* migrate, renderTarget: the value returned
    log,           \* migrate: one record for each step taken, oldest first
    renderPattern, \* renderTarget: the patternString argument
    renderData,    \* renderTarget: the entries of the data argument
    cleanInput,    \* cleanHtml: the htmlString argument of the first call
    cleaned,       \* cleanHtml: what each call so far returned, oldest first
    mdContent      \* parseMarkdownParts: the mdContent argument

migrateVars   == <<sourceHtml, sourceParts, targetParts, sorted, idx, currentHtml,
                   missing, log>>
renderVars    == <<renderPattern, renderData>>
normalizeVars == <<cleanInput, cleaned>>
parseVars     == <<mdContent>>
vars == <<pc, result, migrateVars, renderVars, normalizeVars, parseVars>>

----------------------------------------------------------------------------
(* Characters *)

Lowers == {"a","b","c","d","e","f","g","h","i","j","k","l","m",
           "n","o","p","q","r","s","t","u","v","w","x","y","z"}
Uppers == {"A","B","C","D","E","F","G","H","I","J","K","L","M",
           "N","O","P","Q","R","S","T","U","V","W","X","Y","Z"}
Digits == {"0","1","2","3","4","5","6","7","8","9"}

LowerMap ==
    ("A" :> "a") @@ ("B" :> "b") @@ ("C" :> "c") @@ ("D" :> "d") @@
    ("E" :> "e") @@ ("F" :> "f") @@ ("G" :> "g") @@ ("H" :> "h") @@
    ("I" :> "i") @@ ("J" :> "j") @@ ("K" :> "k") @@ ("L" :> "l") @@
    ("M" :> "m") @@ ("N" :> "n") @@ ("O" :> "o") @@ ("P" :> "p") @@
    ("Q" :> "q") @@ ("R" :> "r") @@ ("S" :> "s") @@ ("T" :> "t") @@
    ("U" :> "u") @@ ("V" :> "v") @@ ("W" :> "w") @@ ("X" :> "x") @@
    ("Y" :> "y") @@ ("Z" :> "z")

\* String.prototype.toLowerCase on one character; also the canonical form the
\* 'i' flag compares characters in.
toLowerCase(c) == IF c \in Uppers THEN LowerMap[c] ELSE c

\* \s and \w of the source's regular expressions.
WhiteSpace == {" ", "\t", "\n", "\r"}
WordChars  == Lowers \cup Uppers \cup Digits \cup {"_"}

----------------------------------------------------------------------------
(* Regular expressions.  A regular expression is a sequence of items; an    *)
(* item is a character set, a group of alternatives, a back reference or a  *)
(* negative lookahead, with a quantifier q: "1", "?", "*", "*?", "+".       *)

Set(cs)      == [k |-> "set", cs |-> cs, neg |-> FALSE, i |-> TRUE, q |-> "1"]
NotSet(cs)   == [k |-> "set", cs |-> cs, neg |-> TRUE, i |-> TRUE, q |-> "1"]
Ch(c)        == Set({c})
Exact(c)     == [k |-> "set", cs |-> {c}, neg |-> FALSE, i |-> FALSE, q |-> "1"]
EndOfInput   == [k |-> "eos", q |-> "1"]                             \* $
AnyChar      == NotSet({})                       \* [\s\S]
Grp(alts)    == [k |-> "grp", alts |-> alts, cap |-> 0, q |-> "1"]   \* (?:a|b)
Cap(n, alts) == [k |-> "grp", alts |-> alts, cap |-> n, q |-> "1"]   \* (a|b), group n
Ref(n)       == [k |-> "ref", n |-> n, q |-> "1"]                    \* \n
NotAhead(alts) == [k |-> "nla", alts |-> alts, cap |-> 0, q |-> "1"]  \* (?!a|b)
Opt(it)      == [it EXCEPT !.q = "?"]
Star(it)     == [it EXCEPT !.q = "*"]
Lazy(it)     == [it EXCEPT !.q = "*?"]
Plus(it)     == [it EXCEPT !.q = "+"]

\* The literal text cs as a regular expression, with and without the 'i' flag.
Lit(cs)      == [j \in 1..Len(cs) |-> Ch(cs[j])]
LitExact(cs) == [j \in 1..Len(cs) |-> Exact(cs[j])]

\* Bookkeeping items the matcher puts on its work list.
EndCap(n, from) == [k |-> "endcap", n |-> n, from |-> from, q |-> "1"]
Moved(from)     == [k |-> "moved", from |-> from, q |-> "1"]

NoMatch == [ok |-> FALSE, end |-> 0, caps |-> <<>>]

\* The value of body for v: v is named once and evaluated once.
With(v, body(_)) == body(v)

\* The least element of a set of integers.
Min(S) == CHOOSE x \in S : \A y \in S : x <= y

RECURSIVE FlattenRange(_, _, _)
\* ss[lo] \o ... \o ss[hi]
FlattenRange(ss, lo, hi) ==
    IF lo > hi THEN <<>>
    ELSE IF lo = hi THEN ss[lo]
    ELSE FlattenRange(ss, lo, (lo + hi) \div 2)
         \o FlattenRange(ss, (lo + hi) \div 2 + 1, hi)

\* The concatenation of the n sequences ss[1], ..., ss[n].
Flatten(ss, n) == FlattenRange(ss, 1, n)

\* The match r, or alt when r is no match.
OrElse(r, alt) == IF r.ok THEN r ELSE alt

SetCap(caps, n, v) ==
    [i \in 1..(IF n > Len(caps) THEN n ELSE Len(caps)) |->
        IF i = n THEN v ELSE IF i <= Len(caps) THEN caps[i] ELSE <<0, 0>>]

\* Capture group n as <<from, to>>; <<0, 0>> when it took no part.
CapAt(caps, n) == IF n <= Len(caps) THEN caps[n] ELSE <<0, 0>>

\* Whether character c is in the set of item it (it.i: under the 'i' flag).
InSet(c, it) ==
    (IF it.i THEN \E x \in it.cs : toLowerCase(x) = toLowerCase(c) ELSE c \in it.cs)
    # it.neg

One(it) == [it EXCEPT !.q = "1"]

\* An item that takes exactly one character.
IsSingle(it) == it.k = "set" /\ it.q = "1"

\* How many items at the head of todo take exactly one character each.
SinglesLen(todo) ==
    Min({j \in 1..Len(todo) : ~IsSingle(todo[j])} \cup {Len(todo) + 1}) - 1

\* The position after the characters of s, from pos on, that are in the set
\* of item it.
SetRunEnd(it, s, pos) ==
    Min({j \in pos..Len(s) : ~InSet(s[j], it)} \cup {Len(s) + 1})

RECURSIVE Run(_, _, _, _)
RECURSIVE RunSingles(_, _, _, _, _)
RECURSIVE RunItem(_, _, _, _, _)
RECURSIVE RunSet(_, _, _, _, _, _)
RECURSIVE RunDown(_, _, _, _, _, _)
RECURSIVE RunUp(_, _, _, _, _, _)
RECURSIVE RunAlts(_, _, _, _, _, _)

\* The first way, in backtracking order, to match the items of todo against s
\* from position pos: [ok, end, caps].
Run(todo, s, pos, caps) ==
    IF Len(todo) = 0 THEN [ok |-> TRUE, end |-> pos, caps |-> caps]
    ELSE IF IsSingle(todo[1]) THEN RunSingles(todo, SinglesLen(todo), s, pos, caps)
    ELSE RunItem(Head(todo), Tail(todo), s, pos, caps)

\* The n one-character items at the head of todo, then the others.
RunSingles(todo, n, s, pos, caps) ==
    IF pos + n - 1 <= Len(s) /\ \A j \in 1..n : InSet(s[pos + j - 1], todo[j])
    THEN Run(SubSeq(todo, n + 1, Len(todo)), s, pos + n, caps)
    ELSE NoMatch

\* Item it, which is no one-character item, then the items of rest.
RunItem(it, rest, s, pos, caps) ==
    CASE it.k = "set" -> RunSet(it, rest, s, pos, SetRunEnd(it, s, pos), caps)
      [] it.k # "set" /\ it.q = "?" ->
           OrElse(Run(<<One(it)>> \o rest, s, pos, caps), Run(rest, s, pos, caps))
      [] it.k # "set" /\ it.q = "*" ->
           OrElse(Run(<<One(it), Moved(pos), it>> \o rest, s, pos, caps),
                  Run(rest, s, pos, caps))
      [] it.k # "set" /\ it.q = "*?" ->
           OrElse(Run(rest, s, pos, caps),
                  Run(<<One(it), Moved(pos), it>> \o rest, s, pos, caps))
      [] it.k # "set" /\ it.q = "+" ->
           Run(<<One(it), Star(it)>> \o rest, s, pos, caps)
      [] it.k = "grp" /\ it.q = "1" -> RunAlts(it, 1, rest, s, pos, caps)
      [] it.k = "endcap" ->
           Run(rest, s, pos, SetCap(caps, it.n, <<it.from, pos>>))
      [] it.k = "eos" ->
           IF pos = Len(s) + 1 THEN Run(rest, s, pos, caps) ELSE NoMatch
      [] it.k = "moved" ->
           IF pos = it.from THEN NoMatch ELSE Run(rest, s, pos, caps)
      [] it.k = "ref" /\ it.q = "1" ->
           \* the text of group it.n again ('i' flag)
           With(CapAt(caps, it.n), LAMBDA c :
               IF pos + (c[2] - c[1]) - 1 <= Len(s)
                  /\ \A j \in 0..(c[2] - c[1] - 1) :
                        toLowerCase(s[pos + j]) = toLowerCase(s[c[1] + j])
               THEN Run(rest, s, pos + (c[2] - c[1]), caps)
               ELSE NoMatch)
      [] it.k = "nla" /\ it.q = "1" ->
           IF RunAlts(it, 1, <<>>, s, pos, caps).ok
           THEN NoMatch ELSE Run(rest, s, pos, caps)

\* A quantified set item whose set holds s[pos..hi-1] and not s[hi]: the
\* longest repetition first for ?, * and +, the shortest first for *?.
RunSet(it, rest, s, pos, hi, caps) ==
    CASE it.q = "?" ->
           IF hi > pos
           THEN OrElse(Run(rest, s, pos + 1, caps), Run(rest, s, pos, caps))
           ELSE Run(rest, s, pos, caps)
      [] it.q = "*" -> RunDown(Run(rest, s, hi, caps), rest, s, hi, pos, caps)
      [] it.q = "+" ->
           IF hi > pos
           THEN RunDown(Run(rest, s, hi, caps), rest, s, hi, pos + 1, caps)
           ELSE NoMatch
      [] it.q = "*?" -> RunUp(Run(rest, s, pos, caps), rest, s, pos, hi, caps)

\* r is the match of rest from position at; the next try is one character
\* less, down to lo.
RunDown(r, rest, s, at, lo, caps) ==
    CASE r.ok -> r
      [] ~r.ok /\ at <= lo -> NoMatch
      [] OTHER -> RunDown(Run(rest, s, at - 1, caps), rest, s, at - 1, lo, caps)

\* r is the match of rest from position at; the next try is one character
\* more, up to hi.
RunUp(r, rest, s, at, hi, caps) ==
    CASE r.ok -> r
      [] ~r.ok /\ at >= hi -> NoMatch
      [] OTHER -> RunUp(Run(rest, s, at + 1, caps), rest, s, at + 1, hi, caps)

RunAlts(it, j, rest, s, pos, caps) ==
    IF j > Len(it.alts) THEN NoMatch
    ELSE OrElse(Run(it.alts[j]
                    \o (IF it.cap > 0 THEN <<EndCap(it.cap, pos)>> ELSE <<>>)
                    \o rest, s, pos, caps),
                RunAlts(it, j + 1, rest, s, pos, caps))

NotFound == [found |-> FALSE, index |-> 0, end |-> 0, caps |-> <<>>]

\* The match r that starts at position index.
Found(r, index) == [found |-> TRUE, index |-> index, end |-> r.end, caps |-> r.caps]

\* RegExp.prototype.exec with lastIndex = from - 1: the leftmost match that
\* starts at from or later.  index is its start, end the new lastIndex + 1.
Exec(re, s, from) ==
    With({i \in from..(Len(s) + 1) : Run(re, s, i, <<>>).ok}, LAMBDA starts :
        IF starts = {} THEN NotFound
        ELSE Found(Run(re, s, Min(starts), <<>>), Min(starts)))

RECURSIVE MatchAllFrom(_, _, _)
\* The successive matches of a 'g' regular expression over s, m being the first,
\* as replace, match and split walk them (an empty match advances by one
\* character).
MatchAllFrom(m, re, s) ==
    IF ~m.found THEN <<>>
    ELSE <<m>> \o MatchAllFrom(Exec(re, s, IF m.end = m.index THEN m.end + 1 ELSE m.end),
                               re, s)

MatchAll(re, s) == MatchAllFrom(Exec(re, s, 1), re, s)

\* RegExp.prototype.test on a fresh regular expression.
Test(re, s) == Exec(re, s, 1).found

\* The text of capture group n of match m ("" when the group did not take part).
Group(s, m, n) ==
    IF n <= Len(m.caps) /\ m.caps[n][1] > 0
    THEN SubSeq(s, m.caps[n][1], m.caps[n][2] - 1) ELSE <<>>

\* s with match ms[j] replaced by reps[j], for every j.
Splice(s, ms, reps) ==
    Flatten([j \in 1..(Len(ms) + 1) |->
                SubSeq(s, IF j = 1 THEN 1 ELSE ms[j - 1].end,
                          IF j > Len(ms) THEN Len(s) ELSE ms[j].index - 1)
                \o (IF j > Len(ms) THEN <<>> ELSE reps[j])],
            Len(ms) + 1)

----------------------------------------------------------------------------
(* compilePattern *)

Quotes == {"\"", "'"}

\* /{{\w+}}/ : one placeholder token.
VarToken == <<Ch("{"), Ch("{"), Plus(Set(WordChars)), Ch("}"), Ch("}")>>

\* ([\s\S]*?) as capture group n.
CaptureAny(n) == Cap(n, << <<Lazy(AnyChar)>> >>)

\* Lines 31-42 on character i of a static segment: a regex-escaped character
\* matches itself, a run of whitespace becomes \s*, a quote becomes ['"], and
\* > becomes \s*\/?> .
StaticItem(part, i) ==
    IF part[i] \in WhiteSpace
    THEN (IF i > 1 /\ part[i - 1] \in WhiteSpace THEN <<>> ELSE <<Star(Set(WhiteSpace))>>)
    ELSE IF part[i] \in Quotes THEN <<Set(Quotes)>>
    ELSE IF part[i] = ">" THEN <<Star(Set(WhiteSpace)), Opt(Ch("/")), Ch(">")>>
    ELSE <<Ch(part[i])>>

StaticRegex(part) == Flatten([i \in 1..Len(part) |-> StaticItem(part, i)], Len(part))

\* The name inside the placeholder token that match m found in s.
VarName(s, m) == SubSeq(s, m.index + 2, m.end - 3)

RECURSIVE CompileFrom(_, _, _, _)
\* The forEach of lines 18-52 over the pieces of the split of line 14: the
\* static text before token j, then token j's capture group, and so on.
CompileFrom(patternString, toks, j, from) ==
    IF j > Len(toks)
    THEN StaticRegex(SubSeq(patternString, from, Len(patternString)))
    ELSE StaticRegex(SubSeq(patternString, from, toks[j].index - 1))
         \o <<CaptureAny(j)>>
         \o CompileFrom(patternString, toks, j + 1, toks[j].end)

compilePattern(patternString) ==
    With(MatchAll(VarToken, patternString), LAMBDA toks :
        [regex     |-> CompileFrom(patternString, toks, 1, 1),
         variables |-> [j \in 1..Len(toks) |-> VarName(patternString, toks[j])]])

----------------------------------------------------------------------------
(* renderTarget *)

\* The grave accent U+0060, which a TLA+ string cannot hold on its own: the
\* character is written as this one-element token wherever a text has it.
Grave == "grave"

\* The first position at i or later where value has $$, $&, $` or $', or 0.
NextDollar(value, i) ==
    Min({d \in i..(Len(value) - 1) :
            value[d] = "$" /\ value[d + 1] \in {"$", "&", Grave, "'"}} \cup {Len(value) + 1})
    % (Len(value) + 1)

\* What $c stands for in a replacement of match m in s.
Expansion(c, s, m) ==
    CASE c = "$" -> <<"$">>
      [] c = "&" -> SubSeq(s, m.index, m.end - 1)
      [] c = Grave -> SubSeq(s, 1, m.index - 1)
      [] c = "'" -> SubSeq(s, m.end, Len(s))

RECURSIVE ExpandFrom(_, _, _, _, _)
\* value from position i on, d being NextDollar(value, i).
ExpandFrom(value, i, d, s, m) ==
    IF d = 0 THEN SubSeq(value, i, Len(value))
    ELSE SubSeq(value, i, d - 1) \o Expansion(value[d + 1], s, m)
         \o ExpandFrom(value, d + 2, NextDollar(value, d + 2), s, m)

\* A replacement string given to String.prototype.replace with a regular
\* expression without groups: $$ is a dollar, $& the match, $` and $' the
\* text before and after it.
ExpandReplacement(value, s, m) == ExpandFrom(value, 1, NextDollar(value, 1), s, m)

\* result.replace(new RegExp(`{{${key}}}`, 'g'), value || '')
ReplaceKey(res, key, value) ==
    With(MatchAll(LitExact(<<"{", "{">> \o key \o <<"}", "}">>), res), LAMBDA ms :
        Splice(res, ms, [j \in 1..Len(ms) |-> ExpandReplacement(value, res, ms[j])]))

RECURSIVE SubstituteAll(_, _, _)
\* Lines 69-73: the entries of data in Object.entries order.
SubstituteAll(res, data, j) ==
    IF j > Len(data) THEN res
    ELSE SubstituteAll(ReplaceKey(res, data[j].key, data[j].value), data, j + 1)

\* s.replace(re, '$n') with a 'g' regular expression.
ReplaceByGroup(s, re, n) ==
    With(MatchAll(re, s), LAMBDA ms :
        Splice(s, ms, [j \in 1..Len(ms) |-> Group(s, ms[j], n)]))

\* s.replace(/{{\w+}}/g, '')
StripTokens(s) ==
    With(MatchAll(VarToken, s), LAMBDA ms :
        Splice(s, ms, [j \in 1..Len(ms) |-> <<>>]))

\* <a\s+(?:[^>]*?\s+)?  : the start of the regular expressions of lines 83, 84
AnchorHead ==
    Lit(<<"<", "a">>)
    \o <<Plus(Set(WhiteSpace)),
         Opt(Grp(<< <<Lazy(NotSet({">"})), Plus(Set(WhiteSpace))>> >>))>>
    \o Lit(<<"h", "r", "e", "f", "=">>)

\* [^>]*>([\s\S]*?)<\/a>  with the content as group n
AnchorTail(n) ==
    <<Star(NotSet({">"})), Ch(">"), CaptureAny(n)>> \o Lit(<<"<", "/", "a", ">">>)

\* line 83: /<a\s+(?:[^>]*?\s+)?href=(["'])(?:\s*)\1[^>]*>([\s\S]*?)<\/a>/gi
HrefEmptyQuoted ==
    AnchorHead
    \o <<Cap(1, << <<Set(Quotes)>> >>), Grp(<< <<Star(Set(WhiteSpace))>> >>), Ref(1)>>
    \o AnchorTail(2)

\* line 84: /<a\s+(?:[^>]*?\s+)?href=(?:(?!\s|>)[^"'])+[^>]*>([\s\S]*?)<\/a>/gi
HrefNoQuotes ==
    AnchorHead
    \o <<Plus(Grp(<< <<NotAhead(<< <<Set(WhiteSpace)>>, <<Ch(">")>> >>),
                      NotSet(Quotes)>> >>))>>
    \o AnchorTail(1)

\* line 87: /<a\s+[^>]*href=["']["'][^>]*>([\s\S]*?)<\/a>/gi
HrefQuotePair ==
    Lit(<<"<", "a">>)
    \o <<Plus(Set(WhiteSpace)), Star(NotSet({">"}))>>
    \o Lit(<<"h", "r", "e", "f", "=">>)
    \o <<Set(Quotes), Set(Quotes)>>
    \o AnchorTail(1)

\* Lines 83-87: the three anchor rules, in order.
StripEmptyAnchors(s) ==
    ReplaceByGroup(ReplaceByGroup(ReplaceByGroup(s, HrefEmptyQuoted, 2),
                                  HrefNoQuotes, 1),
                   HrefQuotePair, 1)

\* data: the entries of the data object, <<[key, value], ...>>.
renderTarget(patternString, data) ==
    StripEmptyAnchors(StripTokens(SubstituteAll(patternString, data, 1)))

----------------------------------------------------------------------------
(* Balanced matching *)

NotContainer == [isContainer |-> FALSE, tagName |-> <<>>, startPattern |-> <<>>,
                 variable |-> <<>>]

\* /^\s*<(\w+)/
TagRegex == <<Star(Set(WhiteSpace)), Ch("<"), Cap(1, << <<Plus(Set(WordChars))>> >>)>>

\* new RegExp(`^\\s*<\\/${tagName}\\s*>\\s*$`, 'i')
CloseRegex(tagName) ==
    <<Star(Set(WhiteSpace))>> \o Lit(<<"<", "/">>) \o Lit(tagName)
    \o <<Star(Set(WhiteSpace)), Ch(">"), Star(Set(WhiteSpace)), EndOfInput>>

analyzeContainer(pattern) ==
    With(MatchAll(VarToken, pattern), LAMBDA toks :                 \* line 315
    IF Len(toks) # 1 THEN NotContainer
    ELSE
    With(SubSeq(pattern, 1, toks[1].index - 1), LAMBDA startStr :   \* lines 320-323
    With(Run(TagRegex, startStr, 1, <<>>), LAMBDA tagMatch :
    IF ~tagMatch.ok THEN NotContainer
    ELSE
    With(SubSeq(startStr, tagMatch.caps[1][1], tagMatch.caps[1][2] - 1), LAMBDA tagName :
    IF ~Run(CloseRegex(tagName), SubSeq(pattern, toks[1].end, Len(pattern)), 1, <<>>).ok
    THEN NotContainer
    ELSE [isContainer  |-> TRUE,
          tagName      |-> tagName,
          startPattern |-> startStr,
          variable     |-> VarName(pattern, toks[1])]))))

\* line 414: new RegExp(`(<${lowerTag}[\\s>])|(<\\/${lowerTag}\\s*>)`, 'gi')
TagScanner(lowerTag) ==
    << Grp(<< <<Cap(1, << <<Ch("<")>> \o Lit(lowerTag)
                          \o <<Set(WhiteSpace \cup {">"})>> >>)>>,
              <<Cap(2, << Lit(<<"<", "/">>) \o Lit(lowerTag)
                          \o <<Star(Set(WhiteSpace)), Ch(">")>> >>)>> >>) >>

\* Lines 420-424: the depth after match m.
DepthAfter(html, m, depth) ==
    IF Len(Group(html, m, 1)) > 0 THEN depth + 1
    ELSE IF Len(Group(html, m, 2)) > 0 THEN depth - 1
    ELSE depth

RECURSIVE BalancedScan(_, _, _, _)
\* The while loop of lines 419-430: m is the scanner's match, depth the depth
\* before it.
BalancedScan(m, html, depth, regex) ==
    CASE ~m.found -> -1
      [] m.found /\ DepthAfter(html, m, depth) = 0 -> m.index
      [] OTHER -> BalancedScan(Exec(regex, html, m.end), html,
                               DepthAfter(html, m, depth), regex)

\* The scan from fromIndex with the scanner regex.
ScanFrom(html, fromIndex, regex) ==
    BalancedScan(Exec(regex, html, fromIndex), html, 1, regex)

\* A scan without the depth counter, which stops at the first close tag: what
\* BalancedContent tells findBalancedCloseIndex from.
findFirstCloseIndex(html, fromIndex, tagName) ==
    With(Exec(<< Cap(2, << Lit(<<"<", "/">>) \o Lit(tagName)
                          \o <<Star(Set(WhiteSpace)), Ch(">")>> >>) >>, html, fromIndex),
         LAMBDA m : IF m.found THEN m.index ELSE -1)

\* The position of the close tag that balances, or -1.
findBalancedCloseIndex(html, fromIndex, tagName) ==
    ScanFrom(html, fromIndex,
             TagScanner([j \in 1..Len(tagName) |-> toLowerCase(tagName[j])]))

\* String.prototype.indexOf of one character: its position at from or later,
\* or 0 (JavaScript's -1) when there is none.
indexOf(s, c, from) ==
    Min({j \in from..Len(s) : s[j] = c} \cup {Len(s) + 1}) % (Len(s) + 1)

RECURSIVE CollectOverlapping(_, _, _, _)
\* The loop without line 383, the search going on at the end of the prefix:
\* what DisjointSpans tells CollectMatches from.
CollectOverlapping(html, regex, tagName, from) ==
    With(Exec(regex, html, from), LAMBDA match :
    IF ~match.found THEN <<>>
    ELSE
    With(findBalancedCloseIndex(html, match.end, tagName), LAMBDA closeIndex :
    (IF closeIndex # -1
     THEN << [start   |-> match.index,
              end     |-> indexOf(html, ">", closeIndex) + 1,
              content |-> SubSeq(html, match.end, closeIndex - 1)] >>
     ELSE <<>>)
    \o CollectOverlapping(html, regex, tagName, match.end)))

RECURSIVE CollectMatches(_, _, _, _)
\* The while loop of lines 359-385, with regex.lastIndex + 1 = from.
CollectMatches(html, regex, tagName, from) ==
    With(Exec(regex, html, from), LAMBDA match :
    IF ~match.found THEN <<>>
    ELSE
    With(findBalancedCloseIndex(html, match.end, tagName), LAMBDA closeIndex :
    IF closeIndex # -1
    THEN With(indexOf(html, ">", closeIndex) + 1, LAMBDA totalEndIndex :
             << [start   |-> match.index,
                 end     |-> totalEndIndex,
                 content |-> SubSeq(html, match.end, closeIndex - 1)] >>
             \o CollectMatches(html, regex, tagName, totalEndIndex))
    ELSE CollectMatches(html, regex, tagName, match.end)))

DIFF_START == <<"<","!","-","-","_","_","D","I","F","F","_","S","T","A","R","T",
                "_","_","-","-",">">>
DIFF_END   == <<"<","!","-","-","_","_","D","I","F","F","_","E","N","D",
                "_","_","-","-",">">>

Reverse(q) == [j \in 1..Len(q) |-> q[Len(q) + 1 - j]]

RECURSIVE ReplaceEach(_, _, _, _, _)
\* The forEach of lines 388-401 from element j of ms on.
ReplaceEach(html, ms, j, tPattern, variable) ==
    IF j > Len(ms) THEN html
    ELSE LET newSnippet  == renderTarget(tPattern,
                                         << [key |-> variable, value |-> ms[j].content] >>)
             replacement == DIFF_START \o newSnippet \o DIFF_END
             before      == SubSeq(html, 1, ms[j].start - 1)
             after       == SubSeq(html, ms[j].end, Len(html))
         IN  ReplaceEach(before \o replacement \o after, ms, j + 1, tPattern, variable)

\* The matches array of lines 353-385.
BalancedMatches(html, info) ==
    CollectMatches(html, compilePattern(info.startPattern).regex, info.tagName, 1)

\* The replacements made first to last, each at offsets the one before has
\* shifted: what SpansReplacedInPlace tells migrateBalanced from.
migrateBalancedForward(html, tPattern, info) ==
    ReplaceEach(html, BalancedMatches(html, info), 1, tPattern, info.variable)

\* Lines 344-404.
migrateBalanced(html, tPattern, info) ==
    ReplaceEach(html, Reverse(BalancedMatches(html, info)), 1, tPattern, info.variable)

----------------------------------------------------------------------------
(* The node tree.  A node is                                                *)
(*   [type |-> "element", tag, attrs, children],  tag in lower case, attrs  *)
(*       a sequence of [name, value], children a sequence of nodes;         *)
(*   [type |-> "text", data]  or  [type |-> "comment", data].               *)

Element(tag, attrs, children) ==
    [type |-> "element", tag |-> tag, attrs |-> attrs, children |-> children]
Text(data)    == [type |-> "text", data |-> data]
Comment(data) == [type |-> "comment", data |-> data]

RECURSIVE textContent(_)
\* Node.textContent: the text of the node's descendants, comments left out.
textContent(node) ==
    CASE node.type = "text"    -> node.data
      [] node.type = "comment" -> <<>>
      [] node.type = "element" ->
            Flatten([j \in 1..Len(node.children) |-> textContent(node.children[j])],
                    Len(node.children))

\* Element.children: the child nodes that are elements.
ElementChildren(node) == SelectSeq(node.children, LAMBDA c : c.type = "element")

\* String.prototype.trim() === ''
TrimIsEmpty(s) == \A j \in 1..Len(s) : s[j] \in WhiteSpace

\* The tokens of v, split at whitespace.
ClassTokens(v) ==
    {SubSeq(v, a, b) : <<a, b>> \in
        {p \in (1..Len(v)) \X (1..Len(v)) :
            /\ p[1] <= p[2]
            /\ \A j \in p[1]..p[2] : v[j] \notin WhiteSpace
            /\ (p[1] = 1 \/ v[p[1] - 1] \in WhiteSpace)
            /\ (p[2] = Len(v) \/ v[p[2] + 1] \in WhiteSpace)}}

\* Element.classList, as a set.
classList(node) ==
    UNION {ClassTokens(node.attrs[j].value) :
             j \in {a \in 1..Len(node.attrs) : node.attrs[a].name = <<"c","l","a","s","s">>}}

voidTags == { <<"i","m","g">>, <<"b","r">>, <<"h","r">>, <<"i","n","p","u","t">>,
              <<"m","e","t","a">>, <<"l","i","n","k">> }                 \* line 220
KeepClass == <<"n","u","m","b","e","r","i","n","g","-","n","u","m">>       \* line 230
DecorativeTags == { <<"s","p","a","n">>, <<"i">>, <<"e","m">>,
                    <<"s","t","r","o","n","g">>, <<"b">> }                \* line 234
CellTags == { <<"t","h">>, <<"t","d">> }                                 \* line 236

\* The check without line 237, a decorative element's attributes not looked
\* at: what AttributedDecorativeKept tells IsRemoved from.
IsRemovedWhateverAttributes(node) ==
    /\ node.tag \notin voidTags
    /\ KeepClass \notin classList(node)
    /\ node.tag \notin CellTags
    /\ Len(ElementChildren(node)) = 0
    /\ TrimIsEmpty(textContent(node))

\* Lines 217-245 for an element whose children have been visited: whether
\* node.remove() is reached.
IsRemoved(node) ==
    /\ node.tag \notin voidTags                                         \* line 226
    /\ KeepClass \notin classList(node)                                 \* line 230
    /\ node.tag \notin CellTags                                         \* line 236
    /\ ~(node.tag \in DecorativeTags /\ Len(node.attrs) > 0)            \* line 237
    /\ Len(ElementChildren(node)) = 0                                   \* line 243
    /\ TrimIsEmpty(textContent(node))

RECURSIVE removeEmptyTopDown(_)
\* The visit with the node checked before its children: what
\* NormalizeIdempotent tells recursiveRemoveEmpty from.
removeEmptyTopDown(node) ==
    IF node.type # "element" THEN [removed |-> FALSE, node |-> node]
    ELSE With(SelectSeq([j \in 1..Len(node.children) |->
                            removeEmptyTopDown(node.children[j])],
                        LAMBDA v : ~v.removed), LAMBDA kept :
         [removed |-> IsRemoved(node),
          node    |-> [node EXCEPT !.children = [j \in 1..Len(kept) |-> kept[j].node]]])

RECURSIVE recursiveRemoveEmpty(_)
\* The node as the visit leaves it, and whether the visit removed it from its
\* parent: children first (line 213), then the node itself.
recursiveRemoveEmpty(node) ==
    IF node.type # "element" THEN [removed |-> FALSE, node |-> node]
    ELSE With(SelectSeq([j \in 1..Len(node.children) |->
                            recursiveRemoveEmpty(node.children[j])],
                        LAMBDA v : ~v.removed), LAMBDA kept :
         With([node EXCEPT !.children = [j \in 1..Len(kept) |-> kept[j].node]],
              LAMBDA after : [removed |-> IsRemoved(after), node |-> after]))

\* cleanHtml on the tree that line 203 built under the detached div: the
\* div's children after line 205 (remove() on the div itself, which has no
\* parent, does nothing).
CleanTree(children) ==
    recursiveRemoveEmpty(Element(<<"d","i","v">>, <<>>, children)).node.children

----------------------------------------------------------------------------
(* div.innerHTML = htmlString and the read of div.innerHTML (lines 203 and  *)
(* 207): the platform's fragment parser and serializer, for the markup this *)
(* model feeds them: start, end and void tags with attributes, comments and *)
(* text, without character references, and elements whose start tags the    *)
(* tree builder merely inserts (div, section, span and the like; inline     *)
(* formatting elements as long as they are properly nested).                *)

HtmlVoidTags == voidTags \cup { <<"w","b","r">>, <<"c","o","l">>, <<"a","r","e","a">>,
                                <<"b","a","s","e">>, <<"e","m","b","e","d">> }
\* The "special" elements among those the model parses: an end tag of a
\* non-special element does not close across them.
SpecialTags == { <<"d","i","v">>, <<"s","e","c","t","i","o","n">>, <<"h","r">>,
                 <<"p">>, <<"u","l">>, <<"l","i">>, <<"h","2">> }

LowerAll(s) == [j \in 1..Len(s) |-> toLowerCase(s[j])]

\* The first position at i or later whose character is in stop, or Len(s) + 1.
Until(s, i, stop) ==
    Min({j \in i..Len(s) : s[j] \in stop} \cup {IF i > Len(s) THEN i ELSE Len(s) + 1})

\* The first position at i or later whose character is no whitespace.
SkipWs(s, i) ==
    Min({j \in i..Len(s) : s[j] \notin WhiteSpace}
        \cup {IF i > Len(s) THEN i ELSE Len(s) + 1})

AddAttr(attrs, name, value) ==
    IF \E j \in 1..Len(attrs) : attrs[j].name = name THEN attrs
    ELSE Append(attrs, [name |-> name, value |-> value])

Fail(next, attrs) == [ok |-> FALSE, next |-> next, attrs |-> attrs]

RECURSIVE ParseAttrs(_, _, _)
RECURSIVE AttrName(_, _, _, _)
RECURSIVE AttrValue(_, _, _, _)

\* The attributes of a tag from position i0 to its '>': [ok, next, attrs];
\* ok is FALSE when the text ends inside the tag (the tag is then dropped).
ParseAttrs(s, i0, attrs) ==
    With(SkipWs(s, i0), LAMBDA i :
        IF i > Len(s) THEN Fail(i, attrs)
        ELSE IF s[i] = ">" THEN [ok |-> TRUE, next |-> i + 1, attrs |-> attrs]
        ELSE IF s[i] = "/" THEN ParseAttrs(s, i + 1, attrs)
        ELSE AttrName(s, i, Until(s, i + 1, WhiteSpace \cup {"/", ">", "="}), attrs))

\* The attribute whose name is s[i..e-1].
AttrName(s, i, e, attrs) ==
    With(SkipWs(s, e), LAMBDA a :
        IF a <= Len(s) /\ s[a] = "="
        THEN AttrValue(s, LowerAll(SubSeq(s, i, e - 1)), SkipWs(s, a + 1), attrs)
        ELSE ParseAttrs(s, e, AddAttr(attrs, LowerAll(SubSeq(s, i, e - 1)), <<>>)))

\* The value, from position v, of the attribute name.
AttrValue(s, name, v, attrs) ==
    IF v > Len(s) THEN Fail(v, attrs)
    ELSE IF s[v] \in Quotes
    THEN With(Until(s, v + 1, {s[v]}), LAMBDA c :
             IF c > Len(s) THEN Fail(c, attrs)
             ELSE ParseAttrs(s, c + 1, AddAttr(attrs, name, SubSeq(s, v + 1, c - 1))))
    ELSE IF s[v] = ">"
    THEN [ok |-> TRUE, next |-> v + 1, attrs |-> AddAttr(attrs, name, <<>>)]
    ELSE With(Until(s, v, WhiteSpace \cup {">"}), LAMBDA c :
             ParseAttrs(s, c, AddAttr(attrs, name, SubSeq(s, v, c - 1))))

\* --> or --!> : the end of a comment
CommentEnd == << Grp(<< Lit(<<"-", "-", ">">>), Lit(<<"-", "-", "!", ">">>) >>) >>

StartsWith(s, i, w) == i + Len(w) - 1 <= Len(s) /\ SubSeq(s, i, i + Len(w) - 1) = w

\* A start tag (end = FALSE) or end tag (end = TRUE) whose name is
\* s[from..nameEnd-1].
TagToken(s, from, nameEnd, end) ==
    With(ParseAttrs(s, nameEnd, <<>>), LAMBDA r :
        [tok  |-> IF ~r.ok THEN [t |-> "none"]
                  ELSE IF end
                  THEN [t |-> "end", name |-> LowerAll(SubSeq(s, from, nameEnd - 1))]
                  ELSE [t |-> "start", name |-> LowerAll(SubSeq(s, from, nameEnd - 1)),
                        attrs |-> r.attrs],
         next |-> r.next])

\* The comment whose data is s[from..to-1], the text going on at next.
CommentToken(s, from, to, next) ==
    [tok |-> [t |-> "comment", data |-> SubSeq(s, from, to - 1)], next |-> next]

\* The text s[from..to-1].
TextToken(s, from, to) == [tok |-> [t |-> "text", data |-> SubSeq(s, from, to - 1)],
                           next |-> to]

\* The token at position i of s and the position after it.  tok.t is "start",
\* "end", "comment", "text", "none" (markup that yields no token) or "eof".
NextToken(s, i) ==
    IF i > Len(s) THEN [tok |-> [t |-> "eof"], next |-> i]
    ELSE IF s[i] # "<" THEN TextToken(s, i, Until(s, i, {"<"}))
    ELSE IF i = Len(s) THEN TextToken(s, i, i + 1)
    ELSE IF s[i + 1] \in Lowers \cup Uppers
    THEN TagToken(s, i + 1, Until(s, i + 1, WhiteSpace \cup {"/", ">"}), FALSE)
    ELSE IF s[i + 1] = "/" /\ i + 2 <= Len(s) /\ s[i + 2] \in Lowers \cup Uppers
    THEN TagToken(s, i + 2, Until(s, i + 2, WhiteSpace \cup {"/", ">"}), TRUE)
    ELSE IF StartsWith(s, i, <<"<", "/", ">">>)
    THEN [tok |-> [t |-> "none"], next |-> i + 3]
    ELSE IF StartsWith(s, i, <<"<", "!", "-", "-", ">">>)
    THEN CommentToken(s, i, i, i + 5)
    ELSE IF StartsWith(s, i, <<"<", "!", "-", "-", "-", ">">>)
    THEN CommentToken(s, i, i, i + 6)
    ELSE IF StartsWith(s, i, <<"<", "!", "-", "-">>)
    THEN With(Exec(CommentEnd, s, i + 4), LAMBDA m :
             IF m.found THEN CommentToken(s, i + 4, m.index, m.end)
             ELSE CommentToken(s, i + 4, Len(s) + 1, Len(s) + 1))
    ELSE IF s[i + 1] \in {"/", "!", "?"}
    THEN \* a bogus comment, up to the next '>'
         With(IF s[i + 1] = "?" THEN i + 1 ELSE i + 2, LAMBDA from :
         With(Until(s, from, {">"}), LAMBDA c : CommentToken(s, from, c, c + 1)))
    ELSE TextToken(s, i, i + 1)

\* kids with node as the new last child; text joins a text before it.
AddNode(kids, node) ==
    IF node.type = "text" /\ Len(kids) > 0 /\ kids[Len(kids)].type = "text"
    THEN [kids EXCEPT ![Len(kids)] = Text(@.data \o node.data)]
    ELSE Append(kids, node)

\* The stack of open elements: entries [tag, attrs, children], the detached
\* div's at the bottom.
AppendChild(stack, node) ==
    [stack EXCEPT ![Len(stack)].children = AddNode(@, node)]

Closed(entry) == Element(entry.tag, entry.attrs, entry.children)

RECURSIVE PopTo(_, _)
\* The stack with its entries from k up closed, each into its parent.
PopTo(stack, k) ==
    IF Len(stack) < k THEN stack
    ELSE PopTo(AppendChild(SubSeq(stack, 1, Len(stack) - 1), Closed(stack[Len(stack)])), k)

RECURSIVE LastOpen(_, _, _)
\* The topmost entry of stack[2..j] whose tag is name, or 0.
LastOpen(stack, name, j) ==
    IF j < 2 THEN 0
    ELSE IF stack[j].tag = name THEN j ELSE LastOpen(stack, name, j - 1)

EndTag(stack, name) ==
    With(LastOpen(stack, name, Len(stack)), LAMBDA k :
        IF k = 0 THEN stack
        ELSE IF name \notin SpecialTags
                /\ \E j \in (k + 1)..Len(stack) : stack[j].tag \in SpecialTags
        THEN stack
        ELSE PopTo(stack, k))

\* The stack after token tok.
TreeInsert(stack, tok) ==
    CASE tok.t = "text"    -> AppendChild(stack, Text(tok.data))
      [] tok.t = "comment" -> AppendChild(stack, Comment(tok.data))
      [] tok.t = "none"    -> stack
      [] tok.t = "end"     -> EndTag(stack, tok.name)
      [] tok.t = "start"   ->
            IF tok.name \in HtmlVoidTags
            THEN AppendChild(stack, Element(tok.name, tok.attrs, <<>>))
            ELSE Append(stack, [tag |-> tok.name, attrs |-> tok.attrs,
                                children |-> <<>>])

RECURSIVE BuildTree(_, _, _)
\* The tree builder from token n on; at the end of the text every open
\* element is closed.
BuildTree(n, s, stack) ==
    IF n.tok.t = "eof" THEN PopTo(stack, 2)[1].children
    ELSE BuildTree(NextToken(s, n.next), s, TreeInsert(stack, n.tok))

\* line 203: the children of the div after div.innerHTML = htmlString
ParseHtml(htmlString) ==
    BuildTree(NextToken(htmlString, 1), htmlString,
              << [tag |-> <<"d","i","v">>, attrs |-> <<>>, children |-> <<>>] >>)

EscapeText(s) ==
    Flatten([j \in 1..Len(s) |->
                CASE s[j] = "&" -> <<"&","a","m","p",";">>
                  [] s[j] = "<" -> <<"&","l","t",";">>
                  [] s[j] = ">" -> <<"&","g","t",";">>
                  [] OTHER -> <<s[j]>>],
            Len(s))

EscapeAttr(s) ==
    Flatten([j \in 1..Len(s) |->
                CASE s[j] = "&"  -> <<"&","a","m","p",";">>
                  [] s[j] = "\"" -> <<"&","q","u","o","t",";">>
                  [] OTHER -> <<s[j]>>],
            Len(s))

SerializeAttr(attr) ==
    <<" ">> \o attr.name \o <<"=", "\"">> \o EscapeAttr(attr.value) \o <<"\"">>

RECURSIVE SerializeNode(_)
SerializeNode(node) ==
    CASE node.type = "text"    -> EscapeText(node.data)
      [] node.type = "comment" -> <<"<","!","-","-">> \o node.data \o <<"-","-",">">>
      [] node.type = "element" ->
            <<"<">> \o node.tag
            \o Flatten([j \in 1..Len(node.attrs) |-> SerializeAttr(node.attrs[j])],
                       Len(node.attrs))
            \o <<">">>
            \o (IF node.tag \in HtmlVoidTags THEN <<>>
                ELSE Flatten([j \in 1..Len(node.children) |->
                                 SerializeNode(node.children[j])],
                             Len(node.children))
                     \o <<"<", "/">> \o node.tag \o <<">">>)

\* line 207: div.innerHTML
SerializeHtml(children) ==
    Flatten([j \in 1..Len(children) |-> SerializeNode(children[j])], Len(children))

cleanHtml(htmlString) == SerializeHtml(CleanTree(ParseHtml(htmlString)))

----------------------------------------------------------------------------
(* migrate *)

\* line 109: targetMap[name] after the forEach (a later part of the same name
\* overwrites an earlier one); Undefined when no part has the name.
Undefined == [undefined |-> TRUE]

RECURSIVE targetMapFirst(_, _)
\* The pattern of the first part of parts with the name, where targetMap has
\* the last.
targetMapFirst(parts, name) ==
    IF Len(parts) = 0 THEN Undefined
    ELSE IF Head(parts).name = name THEN Head(parts).pattern
    ELSE targetMapFirst(Tail(parts), name)

\* Lines 108-109 and 123: targetMap[name] after
\* targetParts.forEach(p => targetMap[p.name] = p.pattern).
RECURSIVE targetMap(_, _)
targetMap(parts, name) ==
    IF Len(parts) = 0 THEN Undefined
    ELSE IF parts[Len(parts)].name = name THEN parts[Len(parts)].pattern
    ELSE targetMap(SubSeq(parts, 1, Len(parts) - 1), name)

\* !tPattern : undefined, or the empty string
IsFalsy(tPattern) == tPattern = Undefined \/ tPattern = <<>>

RECURSIVE InsertPart(_, _)
\* part put into the sorted list after every part whose pattern is at least as long.
InsertPart(list, part) ==
    IF Len(list) = 0 THEN <<part>>
    ELSE IF Len(Head(list).pattern) >= Len(part.pattern)
         THEN <<Head(list)>> \o InsertPart(Tail(list), part)
         ELSE <<part>> \o list

\* The parts left in their input order: what LongestPatternFirst tells
\* SortParts from.
KeepOrder(parts) == parts

RECURSIVE SortParts(_)
\* line 120: [...sourceParts].sort((a, b) => b.pattern.length - a.pattern.length),
\* a stable sort.
SortParts(parts) ==
    IF Len(parts) = 0 THEN <<>>
    ELSE InsertPart(SortParts(SubSeq(parts, 1, Len(parts) - 1)), parts[Len(parts)])

\* data[entry.key] = entry.value on the entries of an object.
SetEntry(data, entry) ==
    IF \E j \in 1..Len(data) : data[j].key = entry.key
    THEN [j \in 1..Len(data) |-> IF data[j].key = entry.key THEN entry ELSE data[j]]
    ELSE Append(data, entry)

\* Lines 149-152: the entries of extracted after the loop; a name used twice keeps
\* its first place and its last value.
RECURSIVE Extracted(_, _, _, _, _)
Extracted(variables, s, m, i, data) ==
    IF i > Len(variables) THEN data
    ELSE Extracted(variables, s, m, i + 1,
                   SetEntry(data, [key |-> variables[i], value |-> Group(s, m, i)]))

\* Lines 146-155: the fallback for a part that is no container.
migrateRegex(html, pattern, tPattern) ==
    With(compilePattern(pattern), LAMBDA c :
    With(MatchAll(c.regex, html), LAMBDA ms :
        Splice(html, ms,
               [j \in 1..Len(ms) |->
                   DIFF_START
                   \o renderTarget(tPattern, Extracted(c.variables, html, ms[j], 1, <<>>))
                   \o DIFF_END])))

\* /<!--__DIFF_START__-->|<!--__DIFF_END__-->/g  (no 'i' flag)
Markers == << Grp(<< LitExact(DIFF_START), LitExact(DIFF_END) >>) >>

\* s.replace(/from/g, to) for a literal text from
ReplaceText(s, from, to) ==
    With(MatchAll(LitExact(from), s), LAMBDA ms :
        Splice(s, ms, [j \in 1..Len(ms) |-> to]))

\* line 165: html.replace(/<!--__DIFF_START__-->|<!--__DIFF_END__-->/g, '')
StripMarkers(html) ==
    With(MatchAll(Markers, html), LAMBDA ms :
        Splice(html, ms, [j \in 1..Len(ms) |-> <<>>]))

\* Lines 164-168.
CodeOutput(html) ==
    ReplaceText(ReplaceText(StripMarkers(html),
                            <<"-","-","&","g","t",";">>, <<"-","-",">">>),
                <<"&","l","t",";","!","-","-">>, <<"<","!","-","-">>)

HighlightStart == <<"<","s","p","a","n"," ","c","l","a","s","s","=","\"","d","i","f","f",
                    "-","h","i","g","h","l","i","g","h","t","\"",">">>       \* line 180
HighlightEnd   == <<"<","/","s","p","a","n",">">>                           \* line 182

\* The escapes without line 187: what PreviewIsInert tells EscapeHtml from.
EscapeHtmlKeepLt(part) ==
    ReplaceText(ReplaceText(ReplaceText(ReplaceText(part,
        <<"&">>, <<"&","a","m","p",";">>),
        <<">">>, <<"&","g","t",";">>),
        <<"\"">>, <<"&","q","u","o","t",";">>),
        <<"'">>, <<"&","#","0","3","9",";">>)

\* Lines 185-190.
EscapeHtml(part) ==
    ReplaceText(ReplaceText(ReplaceText(ReplaceText(ReplaceText(part,
        <<"&">>, <<"&","a","m","p",";">>),
        <<"<">>, <<"&","l","t",";">>),
        <<">">>, <<"&","g","t",";">>),
        <<"\"">>, <<"&","q","u","o","t",";">>),
        <<"'">>, <<"&","#","0","3","9",";">>)

\* Lines 175-192: the parts of the split at the markers ms, text parts at the
\* odd places and markers at the even ones.
PreviewParts(html, ms) ==
    [j \in 1..(2 * Len(ms) + 1) |->
        IF j % 2 = 0
        THEN (IF SubSeq(html, ms[j \div 2].index, ms[j \div 2].end - 1) = DIFF_START
              THEN HighlightStart ELSE HighlightEnd)
        ELSE EscapeHtml(SubSeq(html,
                               IF j = 1 THEN 1 ELSE ms[j \div 2].end,
                               IF j \div 2 + 1 > Len(ms) THEN Len(html)
                               ELSE ms[j \div 2 + 1].index - 1))]

PreviewOutput(html) ==
    With(MatchAll(Markers, html), LAMBDA ms :
        Flatten(PreviewParts(html, ms), 2 * Len(ms) + 1))

----------------------------------------------------------------------------
(* The inputs of the model *)

DivA      == <<"<","d","i","v"," ","c","l","a","s","s","=","\"","a","\"",">">>  \* <div class="a">
DivClose  == <<"<","/","d","i","v",">">>                                        \* </div>
SpanOpen  == <<"<","s","p","a","n",">">>                                        \* <span>
SpanClose == <<"<","/","s","p","a","n",">">>                                    \* </span>
Hr        == <<"<","h","r",">">>                                                \* <hr>
Placeholder(name) == <<"{","{">> \o name \o <<"}","}">>

Part(name, pattern) == [name |-> name, pattern |-> pattern]

\* Source parts: a container with an attribute, a plain container, a part
\* without placeholder, a part that wraps the plain container's static text,
\* the plain container again under a long placeholder name, and an open tag.
SourcePool == <<
    Part("box",   DivA \o Placeholder(<<"c","o","n","t","e","n","t">>) \o DivClose),
    Part("note",  SpanOpen \o Placeholder(<<"t">>) \o SpanClose),
    Part("rule",  Hr),
    Part("wrap",  <<"<","d","i","v",">">> \o SpanOpen \o Placeholder(<<"t">>)
                  \o SpanClose \o DivClose),
    Part("inner", SpanOpen
                  \o Placeholder(<<"i","n","n","e","r","_","c","o","n","t","e","n","t","_","x">>)
                  \o SpanClose),
    Part("open",  DivA) >>

TargetPool == <<
    Part("box",   <<"<","s","e","c","t","i","o","n",">">>
                  \o Placeholder(<<"c","o","n","t","e","n","t">>)
                  \o <<"<","/","s","e","c","t","i","o","n",">">>),
    Part("note",  <<"<","s","p","a","n"," ","c","l","a","s","s","=","\"","n","\"",">">>
                  \o Placeholder(<<"t">>) \o SpanClose),
    Part("rule",  <<"<","h","r"," ","c","l","a","s","s","=","\"","r","\"",">">>),
    Part("inner", <<"<","s","p","a","n"," ","i","d","=","\"","i","\"",">">>
                  \o Placeholder(<<"i","n","n","e","r","_","c","o","n","t","e","n","t","_","x">>)
                  \o SpanClose),
    Part("wrap",  <<"<","s","e","c","t","i","o","n",">">> \o SpanOpen
                  \o Placeholder(<<"t">>) \o SpanClose
                  \o <<"<","/","s","e","c","t","i","o","n",">">>) >>

DivPlain      == <<"<","d","i","v",">">>                  \* <div>
DivCloseLoose == <<"<","/","D","I","V"," ",">">>          \* </DIV >
Section(attrs) == <<"<","s","e","c","t","i","o","n">> \o attrs \o <<">">>
SectionClose  == <<"<","/","s","e","c","t","i","o","n",">">>

Chunks == <<DivA, DivClose, SpanOpen, SpanClose, Hr, <<"x">>>>

\* The chunks of the texts balanced matching is run on alone.
BalancedChunks == <<DivA, DivPlain, DivClose, DivCloseLoose, <<"x">>>>

\* Two containers of the tag div, and their targets.
BalancedSources == <<
    Part("box",   DivA \o Placeholder(<<"c","o","n","t","e","n","t">>) \o DivClose),
    Part("plain", DivPlain \o Placeholder(<<"c">>) \o DivClose) >>
BalancedTargets == <<
    Part("box",   Section(<<>>) \o Placeholder(<<"c","o","n","t","e","n","t">>)
                  \o SectionClose),
    Part("plain", Section(<<" ","i","d","=","\"","p","\"">>) \o Placeholder(<<"c">>)
                  \o SectionClose) >>

MaxBalancedChunks == 4

MaxChunks == 2
MaxParts  == 2

\* The texts made of at most n chunks.
ChunkTexts(chunks, n) ==
    UNION {{Flatten([j \in 1..k |-> chunks[f[j]]], k) : f \in [1..k -> 1..Len(chunks)]} :
             k \in 0..n}

\* <div class="a"><div class="a">X</div>Y</div>
NestedExample == DivA \o DivA \o <<"X">> \o DivClose \o <<"Y">> \o DivClose

Texts == ChunkTexts(Chunks, MaxChunks)
\* The nested example followed by a second container.
NestedThenFlat == NestedExample \o DivA \o <<"Z">> \o DivClose
BalancedTexts ==
    ChunkTexts(BalancedChunks, MaxBalancedChunks) \cup {NestedExample, NestedThenFlat}

\* The lists of at most n different parts of pool.
PartLists(pool, n) ==
    UNION {{[j \in 1..k |-> pool[f[j]]] :
              f \in {g \in [1..k -> 1..Len(pool)] :
                       \A a, b \in 1..k : a # b => g[a] # g[b]}} : k \in 0..n}

SourceLists == PartLists(SourcePool, MaxParts)
TargetLists == {SubSeq(TargetPool, 1, k) : k \in 0..Len(TargetPool)}

----------------------------------------------------------------------------
(* One call of migrate, a step for each part of the loop of lines 122-157. *)

\* A record of log: the part a step handled, how, and the working text before.
Step(kind, part, before) == [kind |-> kind, part |-> part, before |-> before]

\* The variables of the other calls, which a call of migrate does not touch.
NoRender    == renderPattern = <<>> /\ renderData = <<>>
NoNormalize == cleanInput = <<>> /\ cleaned = <<>>
NoParse     == mdContent = <<>>
NoMigrate ==
    /\ sourceHtml = <<>> /\ sourceParts = <<>> /\ targetParts = <<>> /\ sorted = <<>>
    /\ idx = 0 /\ currentHtml = <<>> /\ missing = <<>> /\ log = <<>>

\* A call migrate(sourceHtml, sourceParts, targetParts) about to run.
Init ==
    /\ pc = "call"
    /\ sourceHtml \in Texts
    /\ sourceParts \in SourceLists
    /\ targetParts \in TargetLists
    /\ sorted = <<>>
    /\ idx = 0
    /\ currentHtml = <<>>
    /\ missing = <<>>
    /\ result = <<>>
    /\ log = <<>>
    /\ NoRender /\ NoNormalize /\ NoParse

\* Lines 104-120.
MigrateStart ==
    /\ pc = "call"
    /\ sorted' = SortParts(sourceParts)
    /\ currentHtml' = sourceHtml
    /\ idx' = 0
    /\ missing' = <<>>
    /\ pc' = "loop"
    /\ UNCHANGED <<sourceHtml, sourceParts, targetParts, result, log, renderVars,
                   normalizeVars, parseVars>>

sPart == sorted[idx + 1]
tPattern == targetMap(targetParts, sPart.name)
containerInfo == analyzeContainer(sPart.pattern)

\* An entry whether or not the pattern occurs: what MissingFollowsWorkingText
\* tells MissingAfter from.
MissingAlways(list, part, html) ==
    Append(list, [name |-> part.name, pattern |-> part.pattern])

\* Lines 128-134: missingMappings after the check of part against the text.
MissingAfter(list, part, html) ==
    IF Test(compilePattern(part.pattern).regex, html)
    THEN Append(list, [name |-> part.name, pattern |-> part.pattern])
    ELSE list

\* Lines 124-136: no target pattern.
StepMissing ==
    /\ pc = "loop" /\ idx < Len(sorted)
    /\ IsFalsy(tPattern)
    /\ missing' = MissingAfter(missing, sPart, currentHtml)
    /\ idx' = idx + 1
    /\ log' = Append(log, Step("missing", sPart, currentHtml))
    /\ UNCHANGED <<pc, sourceHtml, sourceParts, targetParts, sorted, currentHtml, result,
                   renderVars, normalizeVars, parseVars>>

\* Lines 140-143: a container.
StepContainer ==
    /\ pc = "loop" /\ idx < Len(sorted)
    /\ ~IsFalsy(tPattern)
    /\ containerInfo.isContainer
    /\ currentHtml' = migrateBalanced(currentHtml, tPattern, containerInfo)
    /\ idx' = idx + 1
    /\ log' = Append(log, Step("container", sPart, currentHtml))
    /\ UNCHANGED <<pc, sourceHtml, sourceParts, targetParts, sorted, missing, result,
                   renderVars, normalizeVars, parseVars>>

\* Lines 144-156: any other part.
StepRegex ==
    /\ pc = "loop" /\ idx < Len(sorted)
    /\ ~IsFalsy(tPattern)
    /\ ~containerInfo.isContainer
    /\ currentHtml' = migrateRegex(currentHtml, sPart.pattern, tPattern)
    /\ idx' = idx + 1
    /\ log' = Append(log, Step("regex", sPart, currentHtml))
    /\ UNCHANGED <<pc, sourceHtml, sourceParts, targetParts, sorted, missing, result,
                   renderVars, normalizeVars, parseVars>>

\* Lines 159-194.
MigrateFinish ==
    /\ pc = "loop" /\ idx = Len(sorted)
    /\ currentHtml' = cleanHtml(currentHtml)
    /\ result' = [code    |-> CodeOutput(currentHtml'),
                  preview |-> PreviewOutput(currentHtml'),
                  missing |-> missing]
    /\ pc' = "done"
    /\ UNCHANGED <<sourceHtml, sourceParts, targetParts, sorted, idx, missing, log,
                   renderVars, normalizeVars, parseVars>>

\* A call of migrate with one container part.
InitBalanced ==
    /\ pc = "call"
    /\ sourceHtml \in BalancedTexts
    /\ sourceParts \in {<<BalancedSources[j]>> : j \in 1..Len(BalancedSources)}
    /\ targetParts = BalancedTargets
    /\ sorted = <<>>
    /\ idx = 0
    /\ currentHtml = <<>>
    /\ missing = <<>>
    /\ result = <<>>
    /\ log = <<>>
    /\ NoRender /\ NoNormalize /\ NoParse

NextBalanced ==
    \/ MigrateStart
    \/ StepContainer
    \/ MigrateFinish

SpecBalanced == InitBalanced /\ [][NextBalanced]_vars

Next ==
    \/ MigrateStart
    \/ StepMissing
    \/ StepContainer
    \/ StepRegex
    \/ MigrateFinish

Spec == Init /\ [][Next]_vars

----------------------------------------------------------------------------
(* One call of renderTarget *)

MaxValueChunks == 3

\* What the values of the placeholder v are made of: braces, a placeholder,
\* the end of one, a replacement pattern and plain text.
ValueChunks == << <<"{","{">>, <<"{","{","a","}","}">>, <<"v","}","}">>, <<"$","&">>, <<"x">> >>
Values == ChunkTexts(ValueChunks, MaxValueChunks)

\* Templates with the one placeholder v.
Templates == { Placeholder(<<"v">>),
               <<"[">> \o Placeholder(<<"v">>) \o <<"]">>,
               Placeholder(<<"v">>) \o <<"-">> \o Placeholder(<<"v">>) }

\* Anchors whose href is the placeholder url, and an anchor whose href has
\* no value.
Anchor(head, tail) ==
    head \o tail \o Placeholder(<<"t","e","x","t">>) \o <<"<","/","a",">">>
UrlAnchors == { Anchor(<<"<","a"," ","h","r","e","f","=","\"">> \o Placeholder(<<"u","r","l">>), <<"\"",">">>),
                Anchor(<<"<","a"," ","h","r","e","f","=","'">> \o Placeholder(<<"u","r","l">>), <<"'",">">>),
                Anchor(<<"<","a"," ","c","l","a","s","s","=","\"","b","\""," ","h","r","e","f","=","\"">> \o Placeholder(<<"u","r","l">>), <<"\"",">">>),
                Anchor(<<"<","a"," ","h","r","e","f","=","\"">> \o Placeholder(<<"u","r","l">>), <<"\""," ","i","d","=","\"","k","\"",">">>) }
BareAnchors == { Anchor(<<"<","a"," ","h","r","e","f",">">>, <<>>), Anchor(<<"<","a"," ","h","r","e","f"," ","i","d","=","\"","k","\"",">">>, <<>>) }
Urls      == { <<>>, <<" ">>, <<"u">> }
LinkTexts == { <<>>, <<"C","l","i","c","k">>, <<"<","b",">","x","<","/","b",">">> }

Entry(key, value) == [key |-> key, value |-> value]

\* The calls renderTarget(pattern, data) of the model, data binding every
\* placeholder of pattern.
RenderCalls ==
    {[pattern |-> p, data |-> << Entry(<<"v">>, x) >>] : p \in Templates, x \in Values}
    \cup {[pattern |-> p, data |-> << Entry(<<"u","r","l">>, u),
                                      Entry(<<"t","e","x","t">>, x) >>] :
             p \in UrlAnchors, u \in Urls, x \in LinkTexts}
    \cup {[pattern |-> p, data |-> << Entry(<<"t","e","x","t">>, x) >>] :
             p \in BareAnchors, x \in LinkTexts}

InitRender ==
    /\ pc = "render"
    /\ \E c \in RenderCalls : renderPattern = c.pattern /\ renderData = c.data
    /\ result = <<>>
    /\ NoMigrate /\ NoNormalize /\ NoParse

\* Lines 65-95.
Render ==
    /\ pc = "render"
    /\ result' = renderTarget(renderPattern, renderData)
    /\ pc' = "rendered"
    /\ UNCHANGED <<migrateVars, renderVars, normalizeVars, parseVars>>

NextRender == Render

SpecRender == InitRender /\ [][NextRender]_vars

----------------------------------------------------------------------------
(* cleanHtml, and cleanHtml again on what it returned *)

MaxNormalizeChunks == 4

NormalizeChunks == << DivPlain, DivClose, SpanOpen, SpanClose, <<"<","s","p","a","n"," ","c","l","a","s","s","=","\"","i","c","o","n","\"",">">>,
                      <<" ">>, <<"x">>, Hr, <<"<","!","-","-","c","-","-",">">> >>

\* <tag attrs></tag>
EmptyElement(tag, attrs) == <<"<">> \o tag \o attrs \o <<">", "<", "/">> \o tag \o <<">">>

NoAttribute   == <<>>
IconClass     == <<" ","c","l","a","s","s","=","\"","i","c","o","n","\"">>       \* class="icon"
DataAttribute == <<" ","d","a","t","a","-","x","=","\"","1","\"">>       \* data-x="1"
KeepMarker    == <<" ","c","l","a","s","s","=","\"","n","u","m","b","e","r","i","n","g","-","n","u","m","\"">>       \* class="numbering-num"

\* The empty decorative elements, bare and with one attribute, alone and
\* after a text.
DecorativeExamples ==
    {pre \o EmptyElement(tag, attrs) :
        pre \in {<<>>, <<"x">>}, tag \in DecorativeTags,
        attrs \in {NoAttribute, IconClass, DataAttribute, KeepMarker}}

NormalizeTexts == ChunkTexts(NormalizeChunks, MaxNormalizeChunks) \cup DecorativeExamples

InitNormalize ==
    /\ pc = "normalize"
    /\ cleanInput \in NormalizeTexts
    /\ cleaned = <<>>
    /\ result = <<>>
    /\ NoMigrate /\ NoRender /\ NoParse

\* Lines 201-208 on the input.
Normalize ==
    /\ pc = "normalize"
    /\ cleaned' = <<cleanHtml(cleanInput)>>
    /\ pc' = "normalized"
    /\ UNCHANGED <<result, cleanInput, migrateVars, renderVars, parseVars>>

\* Lines 201-208 on the text the call before returned.
NormalizeAgain ==
    /\ pc = "normalized"
    /\ cleaned' = Append(cleaned, cleanHtml(cleaned[1]))
    /\ pc' = "normalized twice"
    /\ UNCHANGED <<result, cleanInput, migrateVars, renderVars, parseVars>>

NextNormalize ==
    \/ Normalize
    \/ NormalizeAgain

SpecNormalize == InitNormalize /\ [][NextNormalize]_vars

----------------------------------------------------------------------------
(* Balanced matching: what the spans of a container part are.  The tags are  *)
(* read off the text character by character, without the matcher.            *)

\* The name tag, in either case, at position i of html.
NameAt(html, i, tag) ==
    /\ i + Len(tag) - 1 <= Len(html)
    /\ \A j \in 1..Len(tag) : toLowerCase(html[i + j - 1]) = toLowerCase(tag[j])

\* An open tag of tag at position i: "<", the name, then white space or ">".
OpenTagAt(html, i, tag) ==
    /\ i + Len(tag) + 1 <= Len(html)
    /\ html[i] = "<"
    /\ NameAt(html, i + 1, tag)
    /\ html[i + Len(tag) + 1] \in WhiteSpace \cup {">"}

\* A close tag of tag at position i: "</", the name, white space, ">".
CloseTagAt(html, i, tag) ==
    /\ i + Len(tag) + 2 <= Len(html)
    /\ html[i] = "<" /\ html[i + 1] = "/"
    /\ NameAt(html, i + 2, tag)
    /\ \E e \in (i + Len(tag) + 2)..Len(html) :
          html[e] = ">" /\ \A k \in (i + Len(tag) + 2)..(e - 1) : html[k] \in WhiteSpace

\* The depth counter of the scan from position from, once it has read the
\* tags that start at position i or before: 1 at the start, one more for each
\* open tag and one less for each close tag.
DepthAt(html, from, i, tag) ==
    1 + Cardinality({o \in from..i : OpenTagAt(html, o, tag)})
      - Cardinality({c \in from..i : CloseTagAt(html, c, tag)})

\* The positions, from from on, where the counter is 0.
BalancedAt(html, from, tag) == {i \in from..Len(html) : DepthAt(html, from, i, tag) = 0}

\* The steps of log that applied a container part, the spans each of them
\* collected and the matcher of its prefix.
ContainerSteps == {k \in 1..Len(log) : log[k].kind = "container"}
InfoOf(k)      == analyzeContainer(log[k].part.pattern)
SpansOf(k)     == BalancedMatches(log[k].before, InfoOf(k))
PrefixRegex(k) == compilePattern(InfoOf(k).startPattern).regex

\* span starts with the prefix match, its content goes up to the first close
\* tag where the counter is 0 and it ends just past that tag's ">".
SpanBalanced(html, tag, prefix, span) ==
    /\ prefix.found /\ prefix.index = span.start
    /\ BalancedAt(html, prefix.end, tag) # {}
    /\ LET close == Min(BalancedAt(html, prefix.end, tag))
       IN  /\ CloseTagAt(html, close, tag)
           /\ span.content = SubSeq(html, prefix.end, close - 1)
           /\ span.end > close
           /\ html[span.end - 1] = ">"
           /\ \A e \in close..(span.end - 2) : html[e] # ">"

\* C1: every span balanced matching reports for a container part of tag T has
\* as content the text between the end of the prefix match and the first close
\* tag of T at which the depth counter (1 at the end of the prefix, +1 for an
\* open tag T, -1 for a close tag T) is 0, and ends just past that close tag's
\* ">"; <div class="a">{{content}}</div> over
\* <div class="a"><div class="a">X</div>Y</div> captures <div class="a">X</div>Y.
BalancedContent ==
    \A k \in ContainerSteps :
        LET ms    == SpansOf(k)
            regex == PrefixRegex(k)
        IN  /\ \A j \in 1..Len(ms) :
                  SpanBalanced(log[k].before, InfoOf(k).tagName,
                               Exec(regex, log[k].before, ms[j].start), ms[j])
            /\ log[k].before = NestedExample /\ log[k].part = BalancedSources[1]
                  => ms = << [start   |-> 1,
                              end     |-> Len(NestedExample) + 1,
                              content |-> DivA \o <<"X">> \o DivClose \o <<"Y">>] >>

\* The container part box has been applied to the nested example.
NestedExampleMatched ==
    \E k \in ContainerSteps :
        /\ log[k].before = NestedExample
        /\ log[k].part = BalancedSources[1]
        /\ Len(SpansOf(k)) = 1

\* C2: the spans a container part collects are in strictly increasing start
\* order and pairwise disjoint, each starting at or after the end of the one
\* before, and no span starts inside another span.
DisjointSpans ==
    \A k \in ContainerSteps :
        LET ms == SpansOf(k)
        IN  /\ \A j \in 1..Len(ms) : ms[j].start < ms[j].end
            /\ \A j \in 1..(Len(ms) - 1) :
                  /\ ms[j].start < ms[j + 1].start
                  /\ ms[j].end <= ms[j + 1].start
            /\ \A i, j \in 1..Len(ms) :
                  i # j => ~(ms[j].start <= ms[i].start /\ ms[i].start < ms[j].end)

\* Two spans, the prefix occurring again inside one of them.
TwoSpansOneNested ==
    \E k \in ContainerSteps :
        LET ms    == SpansOf(k)
            regex == PrefixRegex(k)
        IN  /\ Len(ms) >= 2
            /\ \E j \in 1..Len(ms) :
                  \E i \in (ms[j].start + 1)..(ms[j].end - 1) :
                      Run(regex, log[k].before, i, <<>>).ok

\* The working text after step k of log, while the loop runs or a later step
\* has recorded it.
TextAfter(k) == IF k < Len(log) THEN log[k + 1].before ELSE currentHtml

\* The delimiter-wrapped rendering of content by the target of step k's part.
Wrapped(k, content) ==
    DIFF_START
    \o renderTarget(targetMap(targetParts, log[k].part.name),
                    << [key |-> InfoOf(k).variable, value |-> content] >>)
    \o DIFF_END

\* The text before step k with every span of ms replaced where it stands.
Rebuilt(k, ms) ==
    LET html == log[k].before
        n    == Len(ms)
    IN  Flatten([j \in 1..(n + 1) |->
                    SubSeq(html, IF j = 1 THEN 1 ELSE ms[j - 1].end,
                                 IF j > n THEN Len(html) ELSE ms[j].start - 1)
                    \o (IF j > n THEN <<>> ELSE Wrapped(k, ms[j].content))],
                n + 1)

\* The prefix, matched by regex, occurs at position i of the text before step
\* k, outside every span of ms.
TopLevelPrefix(k, regex, ms, i) ==
    /\ Run(regex, log[k].before, i, <<>>).ok
    /\ \A j \in 1..Len(ms) : ~(ms[j].start < i /\ i < ms[j].end)

\* The depth counter reaches 0 after the prefix at position i.
Balances(k, regex, i) ==
    BalancedAt(log[k].before, Run(regex, log[k].before, i, <<>>).end,
               InfoOf(k).tagName) # {}

\* C3: a container part changes the working text only inside its spans: the
\* result is the text with each span replaced, at its own offsets, by the
\* delimiter-wrapped rendering of its content, everything else kept in
\* order; a prefix occurrence whose close tag never balances is no span and
\* stays as it is, and the balanced occurrences after it are spans.
SpansReplacedInPlace ==
    \A k \in ContainerSteps :
        (k < Len(log) \/ pc = "loop") =>
            LET ms    == SpansOf(k)
                regex == PrefixRegex(k)
            IN  /\ TextAfter(k) = Rebuilt(k, ms)
                /\ \A i \in 1..Len(log[k].before) :
                      TopLevelPrefix(k, regex, ms, i) =>
                          ((\E j \in 1..Len(ms) : ms[j].start = i)
                           <=> Balances(k, regex, i))

\* A prefix occurrence that never balances, and a span after it.
UnbalancedThenSpan ==
    /\ pc = "loop"
    /\ \E k \in ContainerSteps :
          LET ms    == SpansOf(k)
              regex == PrefixRegex(k)
          IN  \E i \in 1..Len(log[k].before) :
                  /\ TopLevelPrefix(k, regex, ms, i)
                  /\ ~Balances(k, regex, i)
                  /\ \E j \in 1..Len(ms) : ms[j].start > i
                  /\ TextAfter(k) # log[k].before

----------------------------------------------------------------------------
(* migrate: the order of the parts, the missing list and the preview *)

\* w occurs in s.
Contains(s, w) == \E i \in 1..(Len(s) + 1) : StartsWith(s, i, w)

\* The static text of a pattern: the pattern without its placeholders.
StaticText(pattern) == StripTokens(pattern)

\* sorted holds the parts of sourceParts, longest pattern string first, parts
\* of equal length in their input order, and log follows it.
SortedByPatternLength ==
    /\ Len(sorted) = Len(sourceParts)
    /\ {sorted[j] : j \in 1..Len(sorted)} = {sourceParts[j] : j \in 1..Len(sourceParts)}
    /\ \A a, b \in 1..Len(sorted) :
          a < b => Len(sorted[a].pattern) >= Len(sorted[b].pattern)
    /\ \A a, b \in 1..Len(sourceParts) :
          a < b /\ Len(sourceParts[a].pattern) = Len(sourceParts[b].pattern)
             => \E i, j \in 1..Len(sorted) :
                   i < j /\ sorted[i] = sourceParts[a] /\ sorted[j] = sourceParts[b]
    /\ Len(log) = idx
    /\ \A k \in 1..Len(log) : log[k].part = sorted[k]

\* C4: within one call of migrate the parts are processed in non-increasing
\* order of the length of their pattern strings, placeholders counted, parts
\* of equal length in their input order, one part after the other; a part
\* whose pattern string is longer is applied before a part whose pattern
\* string is shorter.
LongestPatternFirst ==
    pc \in {"loop", "done"} =>
        /\ SortedByPatternLength
        /\ \A a, b \in 1..Len(sorted) :
              Len(sorted[a].pattern) > Len(sorted[b].pattern) => a < b

\* C4 as stated: the order of above, and a part whose static text strictly
\* contains the static text of another part is applied before it.
StaticContainmentFirst ==
    pc \in {"loop", "done"} =>
        /\ SortedByPatternLength
        /\ \A a, b \in 1..Len(sorted) :
              /\ StaticText(sorted[a].pattern) # StaticText(sorted[b].pattern)
              /\ Contains(StaticText(sorted[a].pattern), StaticText(sorted[b].pattern))
              => a < b

\* Two parts given shortest first have both been applied, longest first.
ShorterPartGivenFirst ==
    /\ pc = "loop" /\ idx = 2
    /\ Len(sourceParts[1].pattern) < Len(sourceParts[2].pattern)
    /\ log[1].part = sourceParts[2]
    /\ log[2].part = sourceParts[1]

\* The entries of list for part.
EntriesFor(list, part) ==
    {j \in 1..Len(list) : list[j] = [name |-> part.name, pattern |-> part.pattern]}

\* The pattern of part occurs in html.
Occurs(part, html) == Test(compilePattern(part.pattern).regex, html)

\* C5: for a source part P without a same-named target part, missing has
\* exactly one entry {name, pattern} for P if P's pattern occurs in the working
\* text at the time P is processed and none if it does not; either way the
\* working text is left as it was and the remaining parts are processed.
MissingFollowsWorkingText ==
    /\ \A k \in 1..Len(log) :
          IsFalsy(targetMap(targetParts, log[k].part.name)) =>
              /\ Cardinality(EntriesFor(missing, log[k].part))
                    = (IF Occurs(log[k].part, log[k].before) THEN 1 ELSE 0)
              /\ (k < Len(log) \/ pc = "loop") => TextAfter(k) = log[k].before
    /\ \A j \in 1..Len(missing) :
          \E k \in 1..Len(log) :
              /\ j \in EntriesFor(missing, log[k].part)
              /\ IsFalsy(targetMap(targetParts, log[k].part.name))
    /\ pc = "done" => Len(log) = Len(sourceParts) /\ result.missing = missing

\* C5 as stated: the entry depends on whether P's pattern occurs in the input
\* text.
MissingFollowsInput ==
    pc = "done" =>
        \A j \in 1..Len(sourceParts) :
            IsFalsy(targetMap(targetParts, sourceParts[j].name)) =>
                Cardinality(EntriesFor(result.missing, sourceParts[j]))
                    = (IF Occurs(sourceParts[j], sourceHtml) THEN 1 ELSE 0)

\* A part without target was found and reported, and the part after it was
\* applied.
MissingReported ==
    /\ pc = "done"
    /\ Len(result.missing) = 1
    /\ Len(log) = 2
    /\ log[1].kind = "missing" /\ Occurs(log[1].part, log[1].before)
    /\ log[2].kind # "missing" /\ TextAfter(1) = log[1].before

\* The places of w in s.
Places(s, w) == {i \in 1..Len(s) : StartsWith(s, i, w)}

\* Position p of s is inside an occurrence of w.
Inside(s, p, w) == \E i \in Places(s, w) : i <= p /\ p < i + Len(w)

\* The character references of lines 186-190.
References == { <<"&","a","m","p",";">>, <<"&","l","t",";">>, <<"&","g","t",";">>, <<"&","q","u","o","t",";">>, <<"&","#","0","3","9",";">> }

\* C8: the preview has one highlight-start marker for each start delimiter of
\* the delimiter-marked text and one highlight-end marker for each end
\* delimiter, and outside the markers no <, >, double or single quote, and no
\* & that does not begin a character reference.
PreviewIsInert ==
    pc = "done" =>
        /\ Cardinality(Places(result.preview, HighlightStart))
              = Cardinality(Places(currentHtml, DIFF_START))
        /\ Cardinality(Places(result.preview, HighlightEnd))
              = Cardinality(Places(currentHtml, DIFF_END))
        /\ \A p \in 1..Len(result.preview) :
              \/ Inside(result.preview, p, HighlightStart)
              \/ Inside(result.preview, p, HighlightEnd)
              \/ /\ result.preview[p] \notin {"<", ">", "\"", "'"}
                 /\ result.preview[p] = "&"
                       => \E r \in References : StartsWith(result.preview, p, r)

\* A preview of a text with a delimiter and with markup outside of it.
PreviewHighlights ==
    /\ pc = "done"
    /\ Places(currentHtml, DIFF_START) # {}
    /\ \E p \in 1..Len(currentHtml) :
          /\ currentHtml[p] = "\""
          /\ ~Inside(currentHtml, p, DIFF_START) /\ ~Inside(currentHtml, p, DIFF_END)
    /\ Places(result.preview, <<"&","q","u","o","t",";">>) # {}

----------------------------------------------------------------------------
(* renderTarget: placeholders and empty links *)

\* The placeholder tokens of pattern.
TokensOf(pattern) ==
    LET toks == MatchAll(VarToken, pattern)
    IN  {SubSeq(pattern, toks[j].index, toks[j].end - 1) : j \in 1..Len(toks)}

\* C6: whatever the values bound to the placeholders of a template, values
\* with braces and placeholder-like text among them, what renderTarget returns
\* contains none of the template's {{name}} tokens.
NoTemplateTokenLeft ==
    pc = "rendered" => \A tok \in TokensOf(renderPattern) : ~Contains(result, tok)

\* An anchor starts at position i of s and its tag, which ends at position gt,
\* has an href attribute at position h that is empty: an empty quoted string
\* or no value at all.
EmptyHrefAt(s, i, gt, h) ==
    /\ s[h - 1] \in WhiteSpace
    /\ StartsWith(s, h, <<"h","r","e","f">>)
    /\ \/ s[h + 4] \in WhiteSpace \cup {">"}
       \/ /\ h + 6 < gt
          /\ s[h + 4] = "=" /\ s[h + 5] \in Quotes /\ s[h + 6] = s[h + 5]
EmptyLinkAt(s, i) ==
    /\ StartsWith(s, i, <<"<","a">>)
    /\ i + 2 <= Len(s) /\ s[i + 2] \in WhiteSpace
    /\ LET gt == Until(s, i, {">"})
       IN  /\ gt <= Len(s)
           /\ \E h \in (i + 3)..(gt - 4) : EmptyHrefAt(s, i, gt, h)
           /\ \E c \in gt..Len(s) : StartsWith(s, c, <<"<","/","a",">">>)

\* C7: after substitution no anchor element with an empty href is left, be the
\* href an empty quoted string or an attribute without value: the anchor has
\* been replaced by its content; <a href="{{url}}">{{text}}</a> with url = ""
\* and text = "Click" gives Click.
EmptyHrefUnwrapped ==
    pc = "rendered" =>
        /\ \A i \in 1..Len(result) : ~EmptyLinkAt(result, i)
        /\ /\ renderPattern = Anchor(<<"<","a"," ","h","r","e","f","=","\"">> \o Placeholder(<<"u","r","l">>), <<"\"",">">>)
           /\ renderData = << Entry(<<"u","r","l">>, <<>>),
                              Entry(<<"t","e","x","t">>, <<"C","l","i","c","k">>) >>
           => result = <<"C","l","i","c","k">>

----------------------------------------------------------------------------
(* cleanHtml: idempotence and the decorative elements *)

RECURSIVE NoneRemovable(_)
\* No element of the tree under node would be removed by a visit.
NoneRemovable(node) ==
    node.type = "element" =>
        /\ ~IsRemoved(node)
        /\ \A j \in 1..Len(node.children) : NoneRemovable(node.children[j])

\* C9: cleanHtml of what cleanHtml returned is the same text, and the tree
\* one bottom-up pass leaves has no element a pass would remove.
NormalizeIdempotent ==
    /\ Len(cleaned) = 2 => cleaned[2] = cleaned[1]
    /\ Len(cleaned) >= 1 =>
          \A node \in {CleanTree(ParseHtml(cleanInput))[j] :
                         j \in 1..Len(CleanTree(ParseHtml(cleanInput)))} :
              NoneRemovable(node)

\* An element that is empty only once its child is removed has been
\* normalized twice.
NestedEmptiesNormalized ==
    /\ Len(cleaned) = 2
    /\ cleanInput = DivPlain \o SpanOpen \o SpanClose \o DivClose
    /\ cleaned[1] = <<>>

\* What cleanHtml returned for input, on every input that is pre followed by
\* an empty element of a decorative tag with the attributes attrs.
DecorativeGives(attrs, kept) ==
    \A pre \in {<<>>, <<"x">>}, tag \in DecorativeTags :
        Len(cleaned) >= 1 /\ cleanInput = pre \o EmptyElement(tag, attrs)
            => cleaned[1] = (IF kept THEN cleanInput ELSE pre)

\* C10: an empty element of the decorative tag set is removed when it has no
\* attribute and kept when it has one, be it a class that is not the
\* keep-marker class, the keep-marker class or another attribute.
AttributedDecorativeKept ==
    /\ DecorativeGives(NoAttribute, FALSE)
    /\ DecorativeGives(IconClass, TRUE)
    /\ DecorativeGives(KeepMarker, TRUE)
    /\ DecorativeGives(DataAttribute, TRUE)

\* C10 as stated: removed as well when the only attribute is a class that is
\* not the keep-marker class.
ClassOnlyDecorativeRemoved ==
    /\ DecorativeGives(NoAttribute, FALSE)
    /\ DecorativeGives(IconClass, FALSE)
    /\ DecorativeGives(DataAttribute, TRUE)

\* <span class="icon"></span> has been normalized, and kept.
IconSpanNormalized ==
    /\ Len(cleaned) >= 1
    /\ cleanInput = EmptyElement(<<"s","p","a","n">>, IconClass)
    /\ cleaned[1] = cleanInput

----------------------------------------------------------------------------
(* parseMarkdownParts *)

\* The greatest element of a set of integers.
Max(S) == CHOOSE x \in S : \A y \in S : y <= x

\* String.prototype.trim
trim(s) ==
    With({i \in 1..Len(s) : s[i] \notin WhiteSpace}, LAMBDA ink :
        IF ink = {} THEN <<>> ELSE SubSeq(s, Min(ink), Max(ink)))

\* The line of s that starts at position p: it ends before the next \n, or
\* before the \r in front of that \n, or at the end of s.
LineFrom(s, p) ==
    With(Until(s, p, {"\n"}), LAMBDA e :
        SubSeq(s, p, IF e <= Len(s) /\ e > p /\ s[e - 1] = "\r" THEN e - 2 ELSE e - 1))

\* Line 267: mdContent.split(/\r?\n/)
split(s) ==
    With({1} \cup {i + 1 : i \in {j \in 1..Len(s) : s[j] = "\n"}}, LAMBDA starts :
        [k \in 1..Cardinality(starts) |->
            LineFrom(s, CHOOSE p \in starts : Cardinality({q \in starts : q < p}) = k - 1)])

PartHeading    == <<"#"," ">>
PatternHeading == <<"#","#"," ","P","a","t","t","e","r","n">>

\* Lines 279-282 and 297-300.  currentPart is the empty sequence for null and
\* a one-element sequence otherwise.
PushPart(parts, currentPart) ==
    IF currentPart # <<>> /\ currentPart[1].name # <<>> /\ currentPart[1].pattern # <<>>
    THEN Append(parts, Part(currentPart[1].name, trim(currentPart[1].pattern)))
    ELSE parts

\* Lines 275-293 with the second branch taken away: a line that begins with
\* '## Pattern' is treated like any other line.
ParseLineKeepHeadings(st, line) ==
    IF StartsWith(line, 1, PartHeading)
    THEN [parts       |-> PushPart(st.parts, st.currentPart),
          currentPart |-> << Part(trim(SubSeq(line, 3, Len(line))), <<>>) >>,
          mode        |-> "pattern_search"]
    ELSE IF st.mode = "pattern_content" /\ st.currentPart # <<>>
    THEN [st EXCEPT !.currentPart[1].pattern = @ \o line \o <<"\n">>]
    ELSE [st EXCEPT !.mode = IF StartsWith(line, 1, PatternHeading)
                             THEN "pattern_content" ELSE @]

\* Lines 275-293: one round of the loop.
ParseLine(st, line) ==
    IF StartsWith(line, 1, PartHeading)
    THEN [parts       |-> PushPart(st.parts, st.currentPart),
          currentPart |-> << Part(trim(SubSeq(line, 3, Len(line))), <<>>) >>,
          mode        |-> "pattern_search"]
    ELSE IF StartsWith(line, 1, PatternHeading)
    THEN [st EXCEPT !.mode = "pattern_content"]
    ELSE IF st.mode = "pattern_content" /\ st.currentPart # <<>>
    THEN [st EXCEPT !.currentPart[1].pattern = @ \o line \o <<"\n">>]
    ELSE st

RECURSIVE ParseLines(_, _, _)
\* Lines 274-294: the loop from line i on.
ParseLines(lines, i, st) ==
    IF i > Len(lines) THEN st ELSE ParseLines(lines, i + 1, ParseLine(st, lines[i]))

\* Lines 265-303.
parseMarkdownParts(md) ==
    With(ParseLines(split(md), 1,
                    [parts |-> <<>>, currentPart |-> <<>>, mode |-> "null"]),
         LAMBDA st : PushPart(st.parts, st.currentPart))

MaxLines == 4

\* The lines documents are made of: a part heading, a heading without a
\* name, the pattern heading bare and with text after it, a pattern line, a
\* pattern line with spaces around it, an empty line and a line of one space.
DocLines == << <<"#"," ","A">>, <<"#"," ">>, <<"#","#"," ","P","a","t","t","e","r","n">>, <<"#","#"," ","P","a","t","t","e","r","n"," ","2">>, <<"<","h","r",">">>, <<" ","x"," ">>, <<>>, <<" ">> >>

\* The line ends of a document.
LineEnds == { <<"\n">>, <<"\r", "\n">> }

\* lines[1], a line end, lines[2], ..., lines[n]
JoinLines(lines, n, sep) ==
    Flatten([j \in 1..(2 * n - 1) |-> IF j % 2 = 1 THEN lines[(j + 1) \div 2] ELSE sep],
            2 * n - 1)

\* The documents of at most MaxLines lines, with either line end.
Documents ==
    UNION {{JoinLines([j \in 1..k |-> DocLines[f[j]]], k, sep) :
               f \in [1..k -> 1..Len(DocLines)], sep \in LineEnds} : k \in 1..MaxLines}

InitParse ==
    /\ pc = "parse"
    /\ mdContent \in Documents
    /\ result = <<>>
    /\ NoMigrate /\ NoRender /\ NoNormalize

\* Lines 265-303.
Parse ==
    /\ pc = "parse"
    /\ result' = parseMarkdownParts(mdContent)
    /\ pc' = "parsed"
    /\ UNCHANGED <<migrateVars, renderVars, normalizeVars, parseVars>>

NextParse == Parse

SpecParse == InitParse /\ [][NextParse]_vars

----------------------------------------------------------------------------
(* parseMarkdownParts: what is returned *)

\* C11: every part that parseMarkdownParts returns has a non-empty name and a
\* non-empty (trimmed) pattern; a part whose collected body is empty or only
\* white space, or whose heading text is empty, is not returned.
ReturnedPartsComplete ==
    pc = "parsed" =>
        \A j \in 1..Len(result) : result[j].name # <<>> /\ result[j].pattern # <<>>

\* The elements of a set of integers, least first.
Ascending(S) ==
    [k \in 1..Cardinality(S) |-> CHOOSE i \in S : Cardinality({j \in S : j < i}) = k - 1]

IsPartHeading(line)    == StartsWith(line, 1, PartHeading)
IsPatternHeading(line) == StartsWith(line, 1, PatternHeading)

\* The last line of the section that the part heading in line h opens: the
\* line before the next part heading, or the last line.
SectionEnd(lines, h) ==
    Min({i \in (h + 1)..Len(lines) : IsPartHeading(lines[i])} \cup {Len(lines) + 1}) - 1

\* The lines of section h that come after its first pattern heading, those
\* that begin with '## Pattern' themselves counted only if headingsToo.
Collected(lines, h, headingsToo) ==
    LET e  == SectionEnd(lines, h)
        ps == {i \in (h + 1)..e : IsPatternHeading(lines[i])}
    IN  IF ps = {} THEN {}
        ELSE {i \in (Min(ps) + 1)..e : headingsToo \/ ~IsPatternHeading(lines[i])}

\* The lines numbered in S, in order, each followed by \n.
BodyOf(lines, S) ==
    LET is == Ascending(S)
    IN  Flatten([k \in 1..Len(is) |-> lines[is[k]] \o <<"\n">>], Len(is))

\* One part for each part heading with a name and at least one collected
\* line, in the order of the headings: the name is the trimmed heading text
\* and the pattern the trimmed body.
PartsOf(lines, headingsToo) ==
    LET hs   == Ascending({h \in 1..Len(lines) : IsPartHeading(lines[h])})
        kept == SelectSeq(hs, LAMBDA h :
                    /\ trim(SubSeq(lines[h], 3, Len(lines[h]))) # <<>>
                    /\ Collected(lines, h, headingsToo) # {})
    IN  [k \in 1..Len(kept) |->
            Part(trim(SubSeq(lines[kept[k]], 3, Len(lines[kept[k]]))),
                 trim(BodyOf(lines, Collected(lines, kept[k], headingsToo))))]

\* C12, as the code has it: the body of a part is made of the lines after
\* the first '## Pattern' heading of its section up to the next part heading
\* or the end of input, in order and unchanged, blank lines included, but
\* without the lines that begin with '## Pattern'; lines before the first
\* pattern heading contribute nothing and a part heading starts a new part.
\* The pattern returned is that body, trimmed.
PatternIsCollectedLines ==
    pc = "parsed" => result = PartsOf(split(mdContent), FALSE)

\* C12, as stated: no line after the first pattern heading of a section is
\* skipped, further lines beginning with '## Pattern' included.
PatternKeepsEveryLine ==
    pc = "parsed" => result = PartsOf(split(mdContent), TRUE)

\* A part was returned whose section has a second line beginning with
\* '## Pattern' after the first, with a collected line behind it.
SecondPatternHeadingSeen ==
    /\ pc = "parsed"
    /\ Len(result) = 1
    /\ LET lines == split(mdContent)
       IN  \E i, j, k \in 1..Len(lines) :
              /\ i < j /\ j < k
              /\ IsPatternHeading(lines[i]) /\ IsPatternHeading(lines[j])
              /\ Contains(result[1].pattern, lines[k]) /\ lines[k] # <<>>

----------------------------------------------------------------------------
(* migrate: target parts that share a name, and empty target patterns *)

MaxTargets      == 2
MaxTargetChunks == 2

\* The container box and the part wrap, which is no container.
NamedSources == << SourcePool[1], SourcePool[4] >>

\* Targets for them: for each name a target that keeps the placeholder as it
\* is, one that does not (box puts <div><span>i</span></div> in front of it,
\* wrap leaves it out) and one with an empty pattern.
NamedTargets == <<
    TargetPool[1],
    Part("box",  DivPlain \o SpanOpen \o <<"i">> \o SpanClose \o DivClose
                 \o Placeholder(<<"c","o","n","t","e","n","t">>)),
    Part("box",  <<>>),
    TargetPool[5],
    Part("wrap", <<"<","b",">","n","<","/","b",">">>),
    Part("wrap", <<>>) >>

\* The lists of at most MaxTargets target parts, parts of one name among them.
NamedTargetLists ==
    UNION {{[j \in 1..k |-> NamedTargets[f[j]]] : f \in [1..k -> 1..Len(NamedTargets)]} :
             k \in 0..MaxTargets}

\* <div class="a">x</div>, <div><span>x</span></div> and x
ElementChunks == << DivA \o <<"x">> \o DivClose,
                    DivPlain \o SpanOpen \o <<"x">> \o SpanClose \o DivClose,
                    <<"x">> >>

\* The texts of at most MaxTargetChunks such chunks, a box inside a wrap and
\* a wrap inside a box.
NamedTexts ==
    ChunkTexts(ElementChunks, MaxTargetChunks)
    \cup { DivPlain \o SpanOpen \o DivA \o <<"x">> \o DivClose \o SpanClose \o DivClose,
           DivA \o DivPlain \o SpanOpen \o <<"x">> \o SpanClose \o DivClose \o DivClose }

\* A call migrate(sourceHtml, sourceParts, targetParts) with these parts,
\* targets and texts.
InitTargets ==
    /\ pc = "call"
    /\ sourceHtml \in NamedTexts
    /\ sourceParts \in PartLists(NamedSources, Len(NamedSources))
    /\ targetParts \in NamedTargetLists
    /\ sorted = <<>>
    /\ idx = 0
    /\ currentHtml = <<>>
    /\ missing = <<>>
    /\ result = <<>>
    /\ log = <<>>
    /\ NoRender /\ NoNormalize /\ NoParse

SpecTargets == InitTargets /\ [][Next]_vars

\* The places in targetParts of the parts with the name of part.
SameName(part) == {j \in 1..Len(targetParts) : targetParts[j].name = part.name}

\* Step k of log did what the target pattern chosen does: nothing but the
\* missing check if there is none (chosen = 0) or if it is empty unless
\* emptyCounts, and otherwise the replacement of the part's matches by it.
StepFollows(k, chosen, emptyCounts) ==
    LET part == log[k].part
        none == chosen = 0 \/ (~emptyCounts /\ targetParts[chosen].pattern = <<>>)
    IN  /\ none <=> log[k].kind = "missing"
        /\ (~none /\ (k < Len(log) \/ pc = "loop")) =>
              TextAfter(k) =
                  IF analyzeContainer(part.pattern).isContainer
                  THEN migrateBalanced(log[k].before, targetParts[chosen].pattern,
                                       analyzeContainer(part.pattern))
                  ELSE migrateRegex(log[k].before, part.pattern,
                                    targetParts[chosen].pattern)

\* C13, as the code has it: a source part is resolved to the pattern of the
\* last target part of its name in array order, and it is treated as having
\* no target (missing check only) exactly when no target part has its name or
\* the pattern of that last one is the empty string.
LastTargetWins ==
    \A k \in 1..Len(log) :
        StepFollows(k, IF SameName(log[k].part) = {} THEN 0
                       ELSE Max(SameName(log[k].part)), FALSE)

\* C13, as stated: a source part is resolved to the pattern of the first
\* target part of its name, and it is treated as having no target exactly when
\* no target part has its name.
FirstTargetWins ==
    \A k \in 1..Len(log) :
        StepFollows(k, IF SameName(log[k].part) = {} THEN 0
                       ELSE Min(SameName(log[k].part)), TRUE)

\* A part with two targets of its name and different patterns, neither of
\* them empty, was applied and changed the text.
TwoTargetsOneName ==
    /\ pc = "loop"
    /\ Len(log) = 1
    /\ Len(targetParts) = 2
    /\ SameName(log[1].part) = {1, 2}
    /\ targetParts[1].pattern # targetParts[2].pattern
    /\ targetParts[1].pattern # <<>> /\ targetParts[2].pattern # <<>>
    /\ log[1].kind # "missing"
    /\ currentHtml # log[1].before

----------------------------------------------------------------------------
(* migrate: the change delimiters of the working text *)

\* How many occurrences of w end at or before position p of s.
CountUpTo(s, w, p) == Cardinality({i \in Places(s, w) : i + Len(w) - 1 <= p})

\* In s every prefix has at least as many occurrences of open as of close,
\* and s as a whole has as many of one as of the other.
WellNested(s, open, close) ==
    /\ \A e \in Places(s, close) :
          CountUpTo(s, open, e + Len(close) - 1) >= CountUpTo(s, close, e + Len(close) - 1)
    /\ Cardinality(Places(s, open)) = Cardinality(Places(s, close))

\* C14: after each application of a source part, container or not, the
\* change delimiters of the working text are well nested (no prefix with more
\* end than start delimiters, as many of one as of the other in all), and the
\* highlight-start and highlight-end markers of the preview are balanced.
DelimitersWellNested ==
    /\ pc \in {"loop", "done"} => WellNested(currentHtml, DIFF_START, DIFF_END)
    /\ pc = "done" => WellNested(result.preview, HighlightStart, HighlightEnd)

\* What holds of the delimiters: a target pattern keeps the placeholders of
\* its source part when each of them occurs in it exactly once, and as long as
\* every pattern applied does, the delimiters and the markers are well nested.
KeepsPlaceholders(part) ==
    LET vs == compilePattern(part.pattern).variables
        tp == targetMap(targetParts, part.name)
    IN  IsFalsy(tp) \/ \A j \in 1..Len(vs) : Cardinality(Places(tp, Placeholder(vs[j]))) = 1
WellNestedWhenKept ==
    (\A k \in 1..Len(log) : KeepsPlaceholders(log[k].part)) => DelimitersWellNested

----------------------------------------------------------------------------
(* renderTarget: anchors whose href has a value *)

\* Anchors whose href is the placeholder url without quotes.
UnquotedAnchors == {
    Anchor(<<"<","a"," ","h","r","e","f","=">> \o Placeholder(<<"u","r","l">>), <<">">>),
    Anchor(<<"<","a"," ","c","l","a","s","s","=","\"","b","\""," ","h","r","e","f","=">> \o Placeholder(<<"u","r","l">>), <<">">>),
    Anchor(<<"<","a"," ","h","r","e","f","=">> \o Placeholder(<<"u","r","l">>), <<" ","i","d","=","\"","k","\"",">">>) }

\* The values of url: none, a word and a path.
LinkUrls == { <<>>, <<"u">>, <<"u","/","v">> }

\* The calls renderTarget(pattern, { url, text }) for the anchors with a
\* quoted and with an unquoted href.
LinkCalls ==
    {[pattern |-> p, data |-> << Entry(<<"u","r","l">>, u),
                                 Entry(<<"t","e","x","t">>, x) >>] :
        p \in UrlAnchors \cup UnquotedAnchors, u \in LinkUrls, x \in LinkTexts}

InitLinks ==
    /\ pc = "render"
    /\ \E c \in LinkCalls : renderPattern = c.pattern /\ renderData = c.data
    /\ result = <<>>
    /\ NoMigrate /\ NoNormalize /\ NoParse

SpecLinks == InitLinks /\ [][NextRender]_vars

\* s ends with w.
EndsWith(s, w) == Len(w) <= Len(s) /\ SubSeq(s, Len(s) - Len(w) + 1, Len(s)) = w

\* C15: an anchor whose href has a non-empty value, quoted or not, is in the
\* result with its opening and closing tags: the anchor is unwrapped only when
\* the value of href is empty.
NonEmptyHrefKept ==
    (pc = "rendered" /\ renderData[1].value # <<>>) =>
        /\ StartsWith(result, 1, <<"<","a"," ">>)
        /\ Contains(result, <<"h","r","e","f","=">>)
        /\ Contains(result, renderData[1].value)
        /\ EndsWith(result, renderData[2].value \o <<"<","/","a",">">>)

====
